---- MODULE Spec2Model ----
(***************************************************************************)
(* A model of the provider registry (interfaces.go), of the option         *)
(* resolver (functions.go), of the adapters the registry constructs and of *)
(* the Anthropic transport builder of github.com/dracory/llm.              *)
(*                                                                         *)
(* Spec           callers running RegisterProvider /                       *)
(*                RegisterCustomProvider / NewLLM concurrently against the *)
(*                package-level registry.                                  *)
(* SpecMerge      mergeOptions applied to bounded pairs of LlmOptions.     *)
(* SpecTransport  buildAnthropicHTTPClient applied to trust inputs, and    *)
(*                TLS handshakes made with the client it returns.          *)
(* SpecAdapter    an adapter constructed through NewLLM and the generation *)
(*                calls made on it while the environment changes.          *)
(* SpecFactory    TextModel / JSONModel / ImageModel (factory.go) applied  *)
(*                to bounded options.                                      *)
(* SpecVertex     buildVertexClientOptions applied to credential sources.  *)
(* SpecTokens     EstimateMaxTokens applied to integers of IntBits bits.   *)
(* SpecReentrant  the registry under fair scheduling, with a factory that  *)
(*                calls RegisterProvider and NewLLM before it returns.     *)
(***************************************************************************)
EXTENDS Integers, Sequences, FiniteSets, TLC

VARIABLES
    providerFactories,  \* interfaces.go:76  map[Provider]LlmFactory
    providerMu,         \* interfaces.go:74  sync.RWMutex: [writer, readers, pending]
    mapWriting,         \* callers inside the map assignment of interfaces.go:83
    pc,                 \* per caller: the statement it is about to execute
    provider,           \* per caller: RegisterProvider's parameter `provider`
    factoryArg,         \* per caller: RegisterProvider's parameter `factory`
    options,            \* per caller: NewLLM's parameter `options` (a local copy)
    factory,            \* per caller: NewLLM's local `factory`
    exists,             \* per caller: NewLLM's local `exists`
    ret,                \* per caller: NewLLM's return values [llm, err]
    calls,              \* number of calls started so far (bounded by MaxCalls)
    lastRegistered,     \* history: per identifier, the factory of the latest registration
    returned,           \* history: the <<identifier, factory>> registrations that returned
    registeredBefore,   \* history: per caller, a registration of the identifier its
                        \*          NewLLM call looks up had returned when the call started
    currentAtLookup,    \* history: per caller, the latest registration of that identifier
                        \*          when its NewLLM call read the table
    callOptions,        \* history: per caller, the options its NewLLM call was given
    invoked,            \* history: per caller, the factory calls its NewLLM call made
    raced,              \* history: an unsynchronised access to the map has happened
    stack,              \* per caller: the NewLLM frames waiting for a factory that is
                        \*             running to return, innermost first
    base,               \* mergeOptions: argument oldOptions
    override,           \* mergeOptions: argument newOptions
    explicitZero,       \* fields the caller wrote as an explicit zero in newOptions
    merged,             \* mergeOptions(base, override)
    remerged,           \* mergeOptions(merged, override)
    mpc,                \* position of the resolver's caller
    estimate,           \* EstimateMaxTokens: its arguments and its result
    environ,            \* the process environment read by os.Getenv
    anthropicSource,    \* which of the two anthropic adapter sources is compiled in
    tOptions,           \* builder: argument providerOptions
    tInputs,            \* builder: locals rootCAFile, rootCAPEM, spkiHash as resolved
    tBuilt,             \* builder: return values [client, err]
    tPeer,              \* handshake: what the peer presented
    tAccepted,          \* handshake: it completed
    tpc,                \* position of the builder's caller
    llm,                \* adapter: the value NewLLM returned, [llm, err]
    constructed,        \* history: the options NewLLM was given, the environment it
                        \*          ran in and what it returned
    lastCall,           \* adapter: the latest generation call and what it ran with
    generated,          \* number of generation calls made on the adapter
    apc                 \* position of the adapter's caller

registryVars == <<providerFactories, providerMu, mapWriting, pc, provider, factoryArg,
                  options, factory, exists, ret, calls, lastRegistered, returned,
                  registeredBefore, currentAtLookup, callOptions, invoked, raced,
                  stack>>
mergeVars == <<base, override, explicitZero, merged, remerged, mpc, estimate>>
transportVars == <<tOptions, tInputs, tBuilt, tPeer, tAccepted, tpc>>
adapterVars == <<environ, anthropicSource, llm, constructed, lastCall, generated, apc>>
vars == <<registryVars, mergeVars, transportVars, adapterVars>>

----------------------------------------------------------------------------
(* Bounds *)

NumProcs == 2
MaxCalls == 3
MaxSet == 1
\* The width of Go's int in this model, in bits (64 in the build).
IntBits == 5

Procs == 1..NumProcs

----------------------------------------------------------------------------
(* constants.go: providers and output formats *)

ProviderOpenAI == "openai"
ProviderGemini == "gemini"
ProviderVertex == "vertex"
ProviderMock == "mock"
ProviderAnthropic == "anthropic"
ProviderOpenRouter == "openrouter"
ProviderCustom == "custom"

OutputFormatText == "text"
OutputFormatJSON == "json"
OutputFormatImagePNG == "image/png"

\* Identifiers that callers register beyond the built-in ones.
CustomProviders == {"test-provider", "custom-test"}

----------------------------------------------------------------------------
(* interfaces.go: LlmOptions *)

NilLogger == "nil"
NilMap == [nil |-> TRUE, entries |-> {}]
MakeMap(kvs) == [nil |-> FALSE, entries |-> kvs]

\* LlmOptions{}: every field holds its zero value.
ZeroOptions ==
    [Provider |-> "", MockResponse |-> "", ApiKey |-> "", ProjectID |-> "",
     Region |-> "", Model |-> "", MaxTokens |-> 0, Temperature |-> 0,
     Verbose |-> FALSE, Logger |-> NilLogger, OutputFormat |-> "",
     ProviderOptions |-> NilMap]

----------------------------------------------------------------------------
(* Values returned by factories and by NewLLM *)

NilError == [msg |-> "nil", arg |-> ""]
Errorf(msg, arg) == [msg |-> msg, arg |-> arg]

\* A nil *http.Client.
NoClient == [nil |-> TRUE]

\* An adapter: its implementation, the options its fields retain, its client.
NilLlm == [impl |-> "nil", options |-> ZeroOptions, httpClient |-> NoClient]

NoFactory == "nil"

----------------------------------------------------------------------------
(* Go strings whose spelling matters, as sequences of tokens *)

\* The empty string.
EmptyText == <<>>
Space == " "

RECURSIVE TrimLeft(_)
TrimLeft(s) == IF s # <<>> /\ Head(s) = Space THEN TrimLeft(Tail(s)) ELSE s

RECURSIVE TrimRight(_)
TrimRight(s) ==
    IF s # <<>> /\ s[Len(s)] = Space THEN TrimRight(SubSeq(s, 1, Len(s) - 1)) ELSE s

\* strings.TrimSpace
TrimSpace(s) == TrimRight(TrimLeft(s))

\* strings.TrimPrefix(s, prefix), for a prefix that is one token
TrimPrefix(s, prefix) == IF s # <<>> /\ Head(s) = prefix THEN Tail(s) ELSE s

\* The values a map[string]any holds under the trust keys: a string, a []byte,
\* or a value of another type.
StringValue(text) == [type |-> "string", text |-> text]
BytesValue(text) == [type |-> "[]byte", text |-> text]
OtherValue == [type |-> "int", text |-> <<>>]

\* m[key] of a map[string]any: the value and whether the key is present.
MapIndex(m, key) ==
    IF \E kv \in m.entries : kv[1] = key
    THEN [raw |-> (CHOOSE kv \in m.entries : kv[1] = key)[2], ok |-> TRUE]
    ELSE [raw |-> OtherValue, ok |-> FALSE]

----------------------------------------------------------------------------
(* The platform the transport builder runs on *)

EnvKeys ==
    {"ANTHROPIC_ROOT_CA_FILE", "ANTHROPIC_ROOT_CA_PEM", "ANTHROPIC_EXPECTED_SPKI_HASH",
     "VERTEXAI_CREDENTIALS_JSON", "VERTEXAI_CREDENTIALS_FILE",
     "GOOGLE_APPLICATION_CREDENTIALS"}
EmptyEnviron == [k \in EnvKeys |-> EmptyText]

\* os.Getenv
Getenv(envKey) == environ[envKey]

\* The certificate authorities: the platform trusts PublicCA; CorpCA and LabCA
\* are private ones.
SystemRoots == {"PublicCA"}
PemCerts == [c \in {"CERT CorpCA", "CERT LabCA"} |->
                IF c = "CERT CorpCA" THEN "CorpCA" ELSE "LabCA"]

\* x509.SystemCertPool()
SystemCertPool == [pool |-> SystemRoots, err |-> FALSE]
\* x509.NewCertPool()
NewCertPool == {}

\* (*CertPool).AppendCertsFromPEM: every certificate block of the data joins the
\* pool, other data is skipped; ok reports that at least one certificate was found.
AppendCertsFromPEM(pool, pemCerts) ==
    LET found == {PemCerts[pemCerts[i]] :
                     i \in {j \in 1..Len(pemCerts) : pemCerts[j] \in DOMAIN PemCerts}}
    IN  [pool |-> pool \cup found, ok |-> found # {}]

\* The files of the platform, by path.
Files == [path \in {"/etc/ca/corp.pem", "/etc/ca/notes.txt", "/etc/gcp/sa.json",
                     "/etc/gcp/adc.json"} |->
             IF path = "/etc/ca/corp.pem" THEN <<"CERT CorpCA">> ELSE <<"hello">>]

\* os.Stat, for a path given as text
Stat(name) ==
    IF Len(name) = 1 /\ name[1] \in DOMAIN Files
    THEN NilError
    ELSE Errorf("stat: no such file or directory", "")

\* os.ReadFile, for a path given as text
ReadFile(name) ==
    IF Len(name) = 1 /\ name[1] \in DOMAIN Files
    THEN [data |-> Files[name[1]], err |-> NilError]
    ELSE [data |-> EmptyText, err |-> Errorf("open: no such file or directory", "")]

\* The public keys of the servers and sha256.Sum256 of their encodings.
PublicKeys == {"keyA", "keyB"}
Sum256(rawSubjectPublicKeyInfo) == "sha256(" \o rawSubjectPublicKeyInfo \o ")"

\* base64.StdEncoding over the tokens that are well-formed base64.
Base64 == [t \in {"b64 sha256(keyA)", "b64 sha256(keyB)", "b64 0102"} |->
              CASE t = "b64 sha256(keyA)" -> Sum256("keyA")
                [] t = "b64 sha256(keyB)" -> Sum256("keyB")
                [] t = "b64 0102" -> "0102"]

\* base64.StdEncoding.DecodeString: a single well-formed token decodes; the
\* empty string decodes to no bytes; anything else is a corrupt input.
DecodeString(s) ==
    IF s = <<>> THEN [bytes |-> "", err |-> NilError]
    ELSE IF Len(s) = 1 /\ s[1] \in DOMAIN Base64
         THEN [bytes |-> Base64[s[1]], err |-> NilError]
         ELSE [bytes |-> "", err |-> Errorf("illegal base64 data", "")]

\* subtle.ConstantTimeCompare: 1 when the two byte strings are equal, else 0.
ConstantTimeCompare(x, y) == IF x = y THEN 1 ELSE 0

----------------------------------------------------------------------------
(* buildAnthropicHTTPClient and valueFromProviderOrEnv,                    *)
(* anthropic_implementation.go:50-145 (the same in unnamed/part_009:52-145) *)

valueFromEnvFirst(providerOptions, key, envKey) ==
    LET fromEnv == TrimSpace(Getenv(envKey))
        entry == MapIndex(providerOptions, key)
    IN  IF fromEnv # <<>> THEN fromEnv
        ELSE IF ~providerOptions.nil /\ entry.ok /\ entry.raw.type \in {"string", "[]byte"}
             THEN TrimSpace(entry.raw.text)
             ELSE <<>>

\* anthropic_implementation.go:128-145
valueFromProviderOrEnv(providerOptions, key, envKey) ==
    LET entry == MapIndex(providerOptions, key)
    IN  IF /\ ~providerOptions.nil
           /\ entry.ok
           /\ entry.raw.type \in {"string", "[]byte"}
           /\ TrimSpace(entry.raw.text) # <<>>
        THEN TrimSpace(entry.raw.text)
        ELSE TrimSpace(Getenv(envKey))

NoVerifyConnection == [set |-> FALSE, expectedPin |-> ""]
NilPool == [nil |-> TRUE, certs |-> {}]

VersionTLS12 == 771
HandshakeTimeoutSeconds == 10
ClientTimeoutSeconds == 30

\* http.DefaultClient: no timeout, the default transport.
DefaultClient ==
    [nil |-> FALSE, Timeout |-> 0,
     TLSHandshakeTimeout |-> HandshakeTimeoutSeconds,
     MinVersion |-> 0, RootCAs |-> NilPool, VerifyConnection |-> NoVerifyConnection]

NewClientOrDefault(tlsConfig) ==
    IF tlsConfig.RootCAs = NilPool /\ tlsConfig.VerifyConnection = NoVerifyConnection
    THEN DefaultClient
    ELSE [nil |-> FALSE, Timeout |-> ClientTimeoutSeconds,
          TLSHandshakeTimeout |-> HandshakeTimeoutSeconds,
          MinVersion |-> tlsConfig.MinVersion, RootCAs |-> tlsConfig.RootCAs,
          VerifyConnection |-> tlsConfig.VerifyConnection]

\* anthropic_implementation.go:115-125: the client around the TLS configuration.
NewClient(tlsConfig) ==
    [nil |-> FALSE, Timeout |-> ClientTimeoutSeconds,
     TLSHandshakeTimeout |-> HandshakeTimeoutSeconds,
     MinVersion |-> tlsConfig.MinVersion, RootCAs |-> tlsConfig.RootCAs,
     VerifyConnection |-> tlsConfig.VerifyConnection]

\* The locals rootCAFile, rootCAPEM and spkiHash of anthropic_implementation.go:55-57.
TrustInputs(providerOptions) ==
    [rootCAFile |-> valueFromProviderOrEnv(providerOptions, "anthropic_root_ca_file",
                                           "ANTHROPIC_ROOT_CA_FILE"),
     rootCAPEM |-> valueFromProviderOrEnv(providerOptions, "anthropic_root_ca_pem",
                                          "ANTHROPIC_ROOT_CA_PEM"),
     spkiHash |-> valueFromProviderOrEnv(providerOptions, "anthropic_spki_hash",
                                         "ANTHROPIC_EXPECTED_SPKI_HASH")]

\* anthropic_implementation.go:94-112: the callback installed for a pin.
PinCallback(spkiHash, decoded) ==
    IF spkiHash # <<>>
    THEN [set |-> TRUE, expectedPin |-> decoded.bytes]
    ELSE NoVerifyConnection

DecodeNeverFails(spkiHash, decoded) == FALSE

\* anthropic_implementation.go:94-98: the pin is decoded when it is not empty.
DecodeFailed(spkiHash, decoded) == spkiHash # <<>> /\ decoded.err # NilError

\* anthropic_implementation.go:50-126, statement by statement.
buildAnthropicHTTPClient(providerOptions) ==
    LET inputs == TrustInputs(providerOptions)
        rootCAFile == inputs.rootCAFile
        rootCAPEM == inputs.rootCAPEM
        system == SystemCertPool
        rootPool0 == IF system.err THEN NewCertPool ELSE system.pool
        fromPEM == AppendCertsFromPEM(rootPool0, rootCAPEM)
        rootPool1 == IF rootCAPEM # <<>> THEN fromPEM.pool ELSE rootPool0
        pemBytes == ReadFile(rootCAFile)
        fromFile == AppendCertsFromPEM(rootPool1, pemBytes.data)
        rootPool == IF rootCAFile # <<>> THEN fromFile.pool ELSE rootPool1
        customRootCA == rootCAFile # <<>> \/ rootCAPEM # <<>>
        spkiHash == TrimPrefix(TrimSpace(inputs.spkiHash), "sha256/")
        expectedPin == DecodeString(spkiHash)
        tlsConfig ==
            [MinVersion |-> VersionTLS12,
             RootCAs |-> IF customRootCA THEN [nil |-> FALSE, certs |-> rootPool]
                         ELSE NilPool,
             VerifyConnection |-> PinCallback(spkiHash, expectedPin)]
    IN  IF rootCAPEM # <<>> /\ ~fromPEM.ok
        THEN [client |-> NoClient, err |-> Errorf("anthropic: invalid root CA PEM", "")]
        ELSE IF rootCAFile # <<>> /\ pemBytes.err # NilError
        THEN [client |-> NoClient,
              err |-> Errorf("anthropic: unable to read root CA file %s: %w", rootCAFile[1])]
        ELSE IF rootCAFile # <<>> /\ ~fromFile.ok
        THEN [client |-> NoClient,
              err |-> Errorf("anthropic: invalid root CA file %s", rootCAFile[1])]
        ELSE IF DecodeFailed(spkiHash, expectedPin)
        THEN [client |-> NoClient, err |-> Errorf("anthropic: invalid SPKI hash: %w", "")]
        ELSE [client |-> NewClient(tlsConfig), err |-> NilError]


----------------------------------------------------------------------------
(* The constructors of the adapters *)

\* The options a constructor keeps in the fields of the adapter it returns.
Retain(o, fields) ==
    [f \in DOMAIN ZeroOptions |-> IF f \in fields THEN o[f] ELSE ZeroOptions[f]]

\* if model == "" { model = <default> }
DefaultModel(o, model) == IF o.Model = "" THEN [o EXCEPT !.Model = model] ELSE o

\* derefFloat64(p, def): the value p points to, def when p is nil. The unset
\* temperature is written 0 in this model, and temperatures count tenths.
derefFloat64(p, def) == IF p = 0 THEN def ELSE p

\* openai_implementation.go:24-45: the API key is required.
newOpenaiImplementation(o) ==
    IF o.ApiKey = ""
    THEN [llm |-> NilLlm, err |-> Errorf("OpenAI API key is required", "")]
    ELSE [llm |-> [impl |-> "openaiImplementation",
                   options |-> Retain([DefaultModel(o, "gpt-4-turbo-preview") EXCEPT
                                          !.Temperature = derefFloat64(@, 7)],
                                      {"ApiKey", "Model", "MaxTokens", "Temperature",
                                       "Verbose", "Logger"}),
                   httpClient |-> NoClient],
          err |-> NilError]

\* gemini_implementation.go:26-57: the API key is required; the adapter keeps
\* the model, the verbosity and the key.
newGeminiImplementation(o) ==
    IF o.ApiKey = ""
    THEN [llm |-> NilLlm, err |-> Errorf("gemini API key not provided", "")]
    ELSE [llm |-> [impl |-> "geminiImplementation",
                   options |-> Retain(DefaultModel(o, "gemini-2.5-flash"),
                                      {"ApiKey", "Model", "Verbose"}),
                   httpClient |-> NoClient],
          err |-> NilError]

\* vertex_implementation.go:29-35: keeps the options, checks nothing.
newVertexImplementation(o) ==
    [llm |-> [impl |-> "vertexLlmImpl", options |-> o, httpClient |-> NoClient],
     err |-> NilError]

\* openrouter_models.go:257-265: never fails, defaults the model.
newMockImplementation(o) ==
    [llm |-> [impl |-> "mockImplementation",
              options |-> IF o.Model = "" THEN [o EXCEPT !.Model = "mock-model"] ELSE o,
              httpClient |-> NoClient],
     err |-> NilError]

\* anthropic_implementation.go:148-162: checks nothing, builds no client.
newAnthropicImplementation(o) ==
    [llm |-> [impl |-> "anthropicImplementation",
              options |-> Retain(DefaultModel(o, "claude-3-opus-20240229"),
                                 {"ApiKey", "Model", "MaxTokens", "Temperature", "Verbose",
                                  "ProviderOptions"}),
              httpClient |-> NoClient],
     err |-> NilError]

\* unnamed/part_009:148-169: builds the client from the provider options.
newAnthropicImplementation_part009(o) ==
    LET built == buildAnthropicHTTPClient(o.ProviderOptions)
    IN  IF built.err # NilError
        THEN [llm |-> NilLlm,
              err |-> Errorf("failed to configure anthropic http client: %w", built.err.msg)]
        ELSE [llm |-> [impl |-> "anthropicImplementation",
                       options |-> Retain([DefaultModel(o, "claude-3-opus-20240229") EXCEPT
                                              !.Temperature = derefFloat64(@, 7)],
                                          {"ApiKey", "Model", "MaxTokens", "Temperature",
                                           "Verbose", "Logger", "ProviderOptions"}),
                       httpClient |-> built.client],
              err |-> NilError]

\* openrouter_implementation.go:22-46: the API key is required.
newOpenRouterImplementation(o) ==
    IF o.ApiKey = ""
    THEN [llm |-> NilLlm, err |-> Errorf("OpenRouter API key is required", "")]
    ELSE [llm |-> [impl |-> "openrouterImplementation",
                   options |-> Retain(DefaultModel(o, "openrouter/auto"),
                                      {"ApiKey", "Model", "MaxTokens", "Temperature",
                                       "Verbose"}),
                   httpClient |-> NoClient],
          err |-> NilError]

\* The endpoint a map names under "url", "endpoint_url" or "base_url", in this
\* order; empty when it names none (custom_implementation.go:29-44).
EndpointURL(providerOptions) ==
    LET Under(key) ==
            LET entry == MapIndex(providerOptions, key)
            IN  IF entry.ok /\ entry.raw.type = "string"
                THEN TrimSpace(entry.raw.text) ELSE <<>>
    IN  IF providerOptions.nil THEN <<>>
        ELSE IF Under("url") # <<>> THEN Under("url")
        ELSE IF Under("endpoint_url") # <<>> THEN Under("endpoint_url")
        ELSE Under("base_url")

\* custom_implementation.go:26-66: the endpoint is required.
newCustomImplementation(o) ==
    LET endpointURL == EndpointURL(o.ProviderOptions)
    IN  IF endpointURL = <<>>
        THEN [llm |-> NilLlm, err |-> Errorf("endpoint url is required", "")]
        ELSE [llm |-> [impl |-> "customImplementation",
                       options |-> [Retain(DefaultModel(o, "default"),
                                           {"ApiKey", "Model", "MaxTokens", "Temperature",
                                            "Verbose"})
                                       EXCEPT !.ProviderOptions =
                                           MakeMap({<<"url", StringValue(endpointURL)>>})],
                       httpClient |-> NoClient],
              err |-> NilError]

\* The factories that occur as values of the registry.
BuiltinFactory(p) == "builtin:" \o p
TestProviderFactory == "test:newMockImplementation"
MyProviderFactory == "readme:NewMyProvider"

\* interfaces.go:70: an LlmFactory is any function of the caller. This one calls
\* back into the registry before it returns:
\*     func(o LlmOptions) (LlmInterface, error) {
\*         RegisterProvider(ReentrantRegisters, newMockImplementation)
\*         return NewLLM(LlmOptions{Provider: ProviderMock})
\*     }
ReentrantFactory == "caller:registersAndConstructs"
ReentrantRegisters == "custom-test"

\* factory.go:337-345: a caller's constructor, which needs the API key it is given.
NewMyProvider(o) ==
    IF o.ApiKey = ""
    THEN [llm |-> NilLlm, err |-> Errorf("my-provider: API key is required", "")]
    ELSE [llm |-> [impl |-> "MyProvider", options |-> o, httpClient |-> NoClient],
          err |-> NilError]

\* The two sources of the anthropic adapter found in the repository.
AnthropicSources == {"anthropic_implementation.go", "unnamed/part_009"}

\* Calling a factory value with the options NewLLM passes to it.
CallFactory(f, o) ==
    CASE f = BuiltinFactory(ProviderOpenAI) -> newOpenaiImplementation(o)
      [] f = BuiltinFactory(ProviderGemini) -> newGeminiImplementation(o)
      [] f = BuiltinFactory(ProviderVertex) -> newVertexImplementation(o)
      [] f = BuiltinFactory(ProviderMock) -> newMockImplementation(o)
      [] f = BuiltinFactory(ProviderAnthropic) ->
            IF anthropicSource = "unnamed/part_009"
            THEN newAnthropicImplementation_part009(o)
            ELSE newAnthropicImplementation(o)
      [] f = BuiltinFactory(ProviderOpenRouter) -> newOpenRouterImplementation(o)
      [] f = BuiltinFactory(ProviderCustom) -> newCustomImplementation(o)
      [] f = TestProviderFactory -> newMockImplementation(o)
      [] f = MyProviderFactory -> NewMyProvider(o)

----------------------------------------------------------------------------
(* Go map operations on providerFactories *)

MapGet(m, k) == IF k \in DOMAIN m THEN m[k] ELSE NoFactory
MapHas(m, k) == k \in DOMAIN m

MapAssignKeepFirst(m, k, v) ==
    IF k \in DOMAIN m THEN m ELSE [x \in DOMAIN m \cup {k} |-> IF x = k THEN v ELSE m[x]]

\* m[k] = v
MapAssign(m, k, v) == [x \in DOMAIN m \cup {k} |-> IF x = k THEN v ELSE m[x]]

----------------------------------------------------------------------------
(* sync.RWMutex *)

CanLockAlways(mu) == TRUE

\* Lock() proceeds when no writer and no reader holds the mutex.
CanLock(mu) == mu.writer = 0 /\ mu.readers = {}

CanRLockAlways(mu) == TRUE

\* RLock() proceeds when no writer holds the mutex and none waits in Lock().
CanRLock(mu) == mu.writer = 0 /\ mu.pending = {}

----------------------------------------------------------------------------
(* The registry after package initialisation *)

BuiltinProviders ==
    {ProviderOpenAI, ProviderGemini, ProviderVertex, ProviderMock,
     ProviderAnthropic, ProviderOpenRouter, ProviderCustom}

\* interfaces.go:113-142: init() registers the built-in providers.
InitialFactories == [p \in BuiltinProviders |-> BuiltinFactory(p)]

\* openai_implementation.go:238-241: TestProviderRegistry starts from an empty table.
ClearedFactories == [p \in {} |-> NoFactory]

\* Inputs of the callers.
RegisterProviders == CustomProviders
RegisterFactories == {TestProviderFactory, MyProviderFactory}
NewLLMOptions ==
    {[ZeroOptions EXCEPT !.Provider = p] : p \in {""} \cup CustomProviders}
        \cup {[ZeroOptions EXCEPT !.ApiKey = "sk-test"]}

NoOptions == ZeroOptions
NoRet == [llm |-> NilLlm, err |-> NilError]

\* The resolver, the builder and the adapter at rest.
NoEstimate == [promptTokens |-> 0, contextWindowSize |-> 0, result |-> 0, done |-> FALSE]

MergeOff ==
    /\ estimate = NoEstimate
    /\ base = ZeroOptions
    /\ override = ZeroOptions
    /\ explicitZero = {}
    /\ merged = ZeroOptions
    /\ remerged = ZeroOptions
    /\ mpc = "off"

NoInputs == [rootCAFile |-> <<>>, rootCAPEM |-> <<>>, spkiHash |-> <<>>]
NoBuilt == [client |-> NoClient, err |-> NilError]
NoPeer == [PeerCertificates |-> <<>>]
NoVerdict == [chain |-> FALSE, callback |-> NilError, accepted |-> FALSE]

TransportOff ==
    /\ tOptions = NilMap
    /\ tInputs = NoInputs
    /\ tBuilt = NoBuilt
    /\ tPeer = NoPeer
    /\ tAccepted = NoVerdict
    /\ tpc = "off"

NoResolved == [Model |-> "", MaxTokens |-> 0, Temperature |-> 0, OutputFormat |-> ""]
NoCall ==
    [override |-> ZeroOptions, resolved |-> NoResolved, response |-> "",
     err |-> NilError, client |-> NoClient, readEnv |-> FALSE, afterOverride |-> FALSE,
     providerOptions |-> NilMap, method |-> "", config |-> ZeroOptions]
NoVia == [fn |-> "", provider |-> "", outputFormat |-> "", options |-> ZeroOptions,
          err |-> NilError]
NoConstructed ==
    [options |-> ZeroOptions, environ |-> EmptyEnviron, ret |-> NoRet, trust |-> NoBuilt,
     via |-> NoVia]

AdapterOff ==
    /\ environ = EmptyEnviron
    /\ anthropicSource = "anthropic_implementation.go"
    /\ llm = NoRet
    /\ constructed = NoConstructed
    /\ lastCall = NoCall
    /\ generated = 0
    /\ apc = "off"

InitRegistry(tables) ==
    /\ providerFactories \in tables
    /\ providerMu = [writer |-> 0, readers |-> {}, pending |-> {}]
    /\ mapWriting = {}
    /\ pc = [p \in Procs |-> "idle"]
    /\ provider = [p \in Procs |-> ""]
    /\ factoryArg = [p \in Procs |-> NoFactory]
    /\ options = [p \in Procs |-> NoOptions]
    /\ factory = [p \in Procs |-> NoFactory]
    /\ exists = [p \in Procs |-> FALSE]
    /\ ret = [p \in Procs |-> NoRet]
    /\ calls = 0
    /\ lastRegistered = providerFactories
    /\ returned = {<<k, providerFactories[k]>> : k \in DOMAIN providerFactories}
    /\ registeredBefore = [p \in Procs |-> FALSE]
    /\ currentAtLookup = [p \in Procs |-> NoFactory]
    /\ callOptions = [p \in Procs |-> NoOptions]
    /\ invoked = [p \in Procs |-> <<>>]
    /\ raced = FALSE
    /\ stack = [p \in Procs |-> <<>>]

----------------------------------------------------------------------------
(* History bookkeeping used to state the properties; no code reads it *)

\* The identifier a NewLLM call given options o is meant to look up.
LookupKey(o) == IF o.Provider = "" THEN ProviderOpenAI ELSE o.Provider

\* h with factory f recorded as the latest registration of identifier k.
Latest(h, k, f) == [x \in DOMAIN h \cup {k} |-> IF x = k THEN f ELSE h[x]]

\* The latest registration of identifier k, NoFactory when there is none.
LatestOf(h, k) == IF k \in DOMAIN h THEN h[k] ELSE NoFactory

----------------------------------------------------------------------------
(* RegisterProvider, interfaces.go:80-84 *)

\* A caller enters RegisterProvider(prov, f).
RegisterProvider_Call(p, prov, f) ==
    /\ pc[p] = "idle"
    /\ calls < MaxCalls
    /\ calls' = calls + 1
    /\ provider' = [provider EXCEPT ![p] = prov]
    /\ factoryArg' = [factoryArg EXCEPT ![p] = f]
    /\ pc' = [pc EXCEPT ![p] = "Register_Lock"]
    /\ UNCHANGED <<providerFactories, providerMu, mapWriting, options, factory, exists,
                   ret, lastRegistered, returned, registeredBefore, currentAtLookup,
                   callOptions, invoked, raced>>
    /\ UNCHANGED <<stack, mergeVars, transportVars, adapterVars>>

\* interfaces.go:87-89: RegisterCustomProvider converts the name and delegates.
RegisterCustomProvider_Call(p, name, f) ==
    /\ name \in CustomProviders
    /\ RegisterProvider_Call(p, name, f)

\* interfaces.go:81: providerMu.Lock() takes the mutex when it is free; called
\* while it is held, it announces the writer, which holds back later readers,
\* and waits.
RegisterProvider_Lock(p) ==
    /\ pc[p] = "Register_Lock"
    /\ IF CanLock(providerMu)
       THEN /\ providerMu' = [providerMu EXCEPT !.writer = p, !.pending = @ \ {p}]
            /\ lastRegistered' = Latest(lastRegistered, provider[p], factoryArg[p])
            /\ pc' = [pc EXCEPT ![p] = "Register_Assign"]
       ELSE /\ p \notin providerMu.pending
            /\ providerMu' = [providerMu EXCEPT !.pending = @ \cup {p}]
            /\ UNCHANGED <<lastRegistered, pc>>
    /\ UNCHANGED <<providerFactories, mapWriting, provider, factoryArg, options, factory,
                   exists, ret, calls, returned, registeredBefore, currentAtLookup,
                   callOptions, invoked, raced>>
    /\ UNCHANGED <<stack, mergeVars, transportVars, adapterVars>>

\* interfaces.go:83: the map assignment begins; the map is being written.
RegisterProvider_AssignBegin(p) ==
    /\ pc[p] = "Register_Assign"
    /\ mapWriting' = mapWriting \cup {p}
    /\ raced' = (raced \/ mapWriting # {})
    /\ pc' = [pc EXCEPT ![p] = "Register_Assigning"]
    /\ UNCHANGED <<providerFactories, providerMu, provider, factoryArg, options, factory,
                   exists, ret, calls, lastRegistered, returned,
                   registeredBefore, currentAtLookup, callOptions, invoked>>
    /\ UNCHANGED <<stack, mergeVars, transportVars, adapterVars>>

\* The tables an assignment can leave behind: the assignment's result, or, when
\* another writer is inside the map at the same time (a data race), possibly the
\* table without this write.
AssignOutcomes(m, k, v, others) ==
    IF others = {} THEN {MapAssign(m, k, v)} ELSE {MapAssign(m, k, v), m}

\* interfaces.go:83: the map assignment completes.
RegisterProvider_AssignEnd(p) ==
    /\ pc[p] = "Register_Assigning"
    /\ providerFactories' \in
          AssignOutcomes(providerFactories, provider[p], factoryArg[p], mapWriting \ {p})
    /\ mapWriting' = mapWriting \ {p}
    /\ pc' = [pc EXCEPT ![p] = "Register_Unlock"]
    /\ UNCHANGED <<providerMu, provider, factoryArg, options, factory, exists, ret, calls,
                   lastRegistered, returned, registeredBefore, currentAtLookup, callOptions,
                   invoked, raced>>
    /\ UNCHANGED <<stack, mergeVars, transportVars, adapterVars>>

\* interfaces.go:82: the deferred providerMu.Unlock(), and the return.
RegisterProvider_Unlock(p) ==
    /\ pc[p] = "Register_Unlock"
    /\ stack[p] = <<>>
    /\ providerMu' = [providerMu EXCEPT !.writer = IF @ = p THEN 0 ELSE @]
    /\ returned' = returned \cup {<<provider[p], factoryArg[p]>>}
    /\ provider' = [provider EXCEPT ![p] = ""]
    /\ factoryArg' = [factoryArg EXCEPT ![p] = NoFactory]
    /\ pc' = [pc EXCEPT ![p] = "idle"]
    /\ UNCHANGED <<providerFactories, mapWriting, options, factory, exists, ret, calls,
                   lastRegistered, registeredBefore, currentAtLookup, callOptions, invoked,
                   raced>>
    /\ UNCHANGED <<stack, mergeVars, transportVars, adapterVars>>

----------------------------------------------------------------------------
(* NewLLM, interfaces.go:92-110 *)

KeepProvider(o) == o

\* interfaces.go:93-96: an empty provider defaults to OpenAI.
DefaultProvider(o) == IF o.Provider = "" THEN [o EXCEPT !.Provider = ProviderOpenAI] ELSE o

\* A caller enters NewLLM(o); the provider default is applied to the local copy.
NewLLM_Call(p, o) ==
    /\ pc[p] = "idle"
    /\ calls < MaxCalls
    /\ calls' = calls + 1
    /\ callOptions' = [callOptions EXCEPT ![p] = o]
    /\ registeredBefore' =
          [registeredBefore EXCEPT ![p] = \E r \in returned : r[1] = LookupKey(o)]
    /\ options' = [options EXCEPT ![p] = DefaultProvider(o)]
    /\ pc' = [pc EXCEPT ![p] = "NewLLM_RLock"]
    /\ UNCHANGED <<providerFactories, providerMu, mapWriting, provider, factoryArg,
                   factory, exists, ret, lastRegistered, returned, currentAtLookup,
                   invoked, raced>>
    /\ UNCHANGED <<stack, mergeVars, transportVars, adapterVars>>

\* interfaces.go:98: providerMu.RLock()
NewLLM_RLock(p) ==
    /\ pc[p] = "NewLLM_RLock"
    /\ CanRLock(providerMu)
    /\ providerMu' = [providerMu EXCEPT !.readers = @ \cup {p}]
    /\ pc' = [pc EXCEPT ![p] = "NewLLM_Lookup"]
    /\ UNCHANGED <<providerFactories, mapWriting, provider, factoryArg, options, factory,
                   exists, ret, calls, lastRegistered, returned,
                   registeredBefore, currentAtLookup, callOptions, invoked, raced>>
    /\ UNCHANGED <<stack, mergeVars, transportVars, adapterVars>>

\* What `factory, exists := m[k]` can observe: the entry, or, when a writer is
\* inside the map at the same time (a data race), anything.
LookupOutcomes(m, k, writers) ==
    IF writers = {}
    THEN {[factory |-> MapGet(m, k), exists |-> MapHas(m, k)]}
    ELSE {[factory |-> MapGet(m, k), exists |-> MapHas(m, k)],
          [factory |-> NoFactory, exists |-> FALSE]}
             \cup [factory : RegisterFactories, exists : {TRUE}]

\* interfaces.go:99: factory, exists := providerFactories[options.Provider]
NewLLM_Lookup(p) ==
    /\ pc[p] = "NewLLM_Lookup"
    /\ \E seen \in LookupOutcomes(providerFactories, options[p].Provider, mapWriting) :
          /\ factory' = [factory EXCEPT ![p] = seen.factory]
          /\ exists' = [exists EXCEPT ![p] = seen.exists]
    /\ currentAtLookup' =
          [currentAtLookup EXCEPT ![p] = LatestOf(lastRegistered, LookupKey(callOptions[p]))]
    /\ raced' = (raced \/ mapWriting # {})
    /\ pc' = [pc EXCEPT ![p] = "NewLLM_RUnlock"]
    /\ UNCHANGED <<providerFactories, providerMu, mapWriting, provider, factoryArg,
                   options, ret, calls, lastRegistered, returned, registeredBefore,
                   callOptions, invoked>>
    /\ UNCHANGED <<stack, mergeVars, transportVars, adapterVars>>

NewLLM_RUnlockDeferred(p) ==
    /\ pc[p] = "NewLLM_RUnlock"
    /\ pc' = [pc EXCEPT ![p] = "NewLLM_Exists"]
    /\ UNCHANGED <<providerFactories, providerMu, mapWriting, provider, factoryArg,
                   options, factory, exists, ret, calls, lastRegistered, returned,
                   registeredBefore, currentAtLookup, callOptions, invoked, raced>>
    /\ UNCHANGED <<stack, mergeVars, transportVars, adapterVars>>

\* interfaces.go:100: providerMu.RUnlock()
NewLLM_RUnlock(p) ==
    /\ pc[p] = "NewLLM_RUnlock"
    /\ providerMu' = [providerMu EXCEPT !.readers = @ \ {p}]
    /\ pc' = [pc EXCEPT ![p] = "NewLLM_Exists"]
    /\ UNCHANGED <<providerFactories, mapWriting, provider, factoryArg, options, factory,
                   exists, ret, calls, lastRegistered, returned,
                   registeredBefore, currentAtLookup, callOptions, invoked, raced>>
    /\ UNCHANGED <<stack, mergeVars, transportVars, adapterVars>>

WrapError(made) ==
    IF made.err # NilError
    THEN [llm |-> NilLlm, err |-> Errorf("failed to create LLM: %w", made.err.msg)]
    ELSE [llm |-> made.llm, err |-> NilError]

\* interfaces.go:105-109: the factory's error is returned as it is, with no adapter.
FactoryResult(made) ==
    IF made.err # NilError
    THEN [llm |-> NilLlm, err |-> made.err]
    ELSE [llm |-> made.llm, err |-> NilError]

\* interfaces.go:101-103: the provider is not registered.
NewLLM_Unsupported(p) ==
    /\ pc[p] = "NewLLM_Exists"
    /\ ~exists[p]
    /\ ret' = [ret EXCEPT ![p] =
          [llm |-> NilLlm, err |-> Errorf("unsupported LLM provider: %s", options[p].Provider)]]
    /\ pc' = [pc EXCEPT ![p] = "NewLLM_Done"]
    /\ UNCHANGED <<providerFactories, providerMu, mapWriting, provider, factoryArg,
                   options, factory, exists, calls, lastRegistered, returned,
                   registeredBefore, currentAtLookup, callOptions, invoked, raced>>
    /\ UNCHANGED <<stack, mergeVars, transportVars, adapterVars>>

\* interfaces.go:105-109: the factory is called, outside the lock.
NewLLM_Factory(p) ==
    /\ pc[p] = "NewLLM_Exists"
    /\ exists[p]
    /\ factory[p] # ReentrantFactory
    /\ LET made == CallFactory(factory[p], options[p])
       IN /\ invoked' = [invoked EXCEPT ![p] =
                Append(@, [factory |-> factory[p], options |-> options[p], made |-> made])]
          /\ ret' = [ret EXCEPT ![p] = FactoryResult(made)]
    /\ pc' = [pc EXCEPT ![p] = "NewLLM_Done"]
    /\ UNCHANGED <<providerFactories, providerMu, mapWriting, provider, factoryArg,
                   options, factory, exists, calls, lastRegistered, returned,
                   registeredBefore, currentAtLookup, callOptions, raced>>
    /\ UNCHANGED <<stack, mergeVars, transportVars, adapterVars>>

\* NewLLM has returned `ret` to its caller; the frame is dropped.
NewLLM_Return(p) ==
    /\ pc[p] = "NewLLM_Done"
    /\ stack[p] = <<>>
    /\ options' = [options EXCEPT ![p] = NoOptions]
    /\ callOptions' = [callOptions EXCEPT ![p] = NoOptions]
    /\ registeredBefore' = [registeredBefore EXCEPT ![p] = FALSE]
    /\ currentAtLookup' = [currentAtLookup EXCEPT ![p] = NoFactory]
    /\ factory' = [factory EXCEPT ![p] = NoFactory]
    /\ exists' = [exists EXCEPT ![p] = FALSE]
    /\ ret' = [ret EXCEPT ![p] = NoRet]
    /\ invoked' = [invoked EXCEPT ![p] = <<>>]
    /\ pc' = [pc EXCEPT ![p] = "idle"]
    /\ UNCHANGED <<providerFactories, providerMu, mapWriting, provider, factoryArg, calls,
                   lastRegistered, returned, raced>>
    /\ UNCHANGED <<stack, mergeVars, transportVars, adapterVars>>

----------------------------------------------------------------------------
(* A factory that calls back into the registry, interfaces.go:105 *)

\* The locals of the NewLLM call of caller p, kept while its factory runs.
Frame(p) ==
    [options |-> options[p], callOptions |-> callOptions[p],
     registeredBefore |-> registeredBefore[p], currentAtLookup |-> currentAtLookup[p],
     factory |-> factory[p], exists |-> exists[p], invoked |-> invoked[p]]

\* The options of the NewLLM call the factory makes.
ReentrantOptions == [ZeroOptions EXCEPT !.Provider = ProviderMock]

\* interfaces.go:105: NewLLM calls the factory, which enters RegisterProvider.
NewLLM_FactoryEnter(p) ==
    /\ pc[p] = "NewLLM_Exists"
    /\ exists[p]
    /\ factory[p] = ReentrantFactory
    /\ stack[p] = <<>>
    /\ stack' = [stack EXCEPT ![p] = <<Frame(p)>> \o @]
    /\ provider' = [provider EXCEPT ![p] = ReentrantRegisters]
    /\ factoryArg' = [factoryArg EXCEPT ![p] = TestProviderFactory]
    /\ pc' = [pc EXCEPT ![p] = "Register_Lock"]
    /\ UNCHANGED <<providerFactories, providerMu, mapWriting, options, factory, exists,
                   ret, calls, lastRegistered, returned, registeredBefore,
                   currentAtLookup, callOptions, invoked, raced>>
    /\ UNCHANGED <<mergeVars, transportVars, adapterVars>>

\* interfaces.go:82: RegisterProvider unlocks and returns into the factory, which
\* goes on to call NewLLM (interfaces.go:92-96).
RegisterProvider_UnlockInFactory(p) ==
    /\ pc[p] = "Register_Unlock"
    /\ stack[p] # <<>>
    /\ providerMu' = [providerMu EXCEPT !.writer = IF @ = p THEN 0 ELSE @]
    /\ returned' = returned \cup {<<provider[p], factoryArg[p]>>}
    /\ provider' = [provider EXCEPT ![p] = ""]
    /\ factoryArg' = [factoryArg EXCEPT ![p] = NoFactory]
    /\ callOptions' = [callOptions EXCEPT ![p] = ReentrantOptions]
    /\ registeredBefore' =
          [registeredBefore EXCEPT ![p] =
              \E r \in returned' : r[1] = LookupKey(ReentrantOptions)]
    /\ options' = [options EXCEPT ![p] = DefaultProvider(ReentrantOptions)]
    /\ factory' = [factory EXCEPT ![p] = NoFactory]
    /\ exists' = [exists EXCEPT ![p] = FALSE]
    /\ invoked' = [invoked EXCEPT ![p] = <<>>]
    /\ pc' = [pc EXCEPT ![p] = "NewLLM_RLock"]
    /\ UNCHANGED <<providerFactories, mapWriting, ret, calls, lastRegistered,
                   currentAtLookup, raced, stack>>
    /\ UNCHANGED <<mergeVars, transportVars, adapterVars>>

\* The NewLLM call of the factory has returned, the factory returns its values
\* to the NewLLM call that invoked it (interfaces.go:105-109).
NewLLM_ReturnToFactory(p) ==
    /\ pc[p] = "NewLLM_Done"
    /\ stack[p] # <<>>
    /\ LET frame == Head(stack[p])
           made == ret[p]
       IN  /\ options' = [options EXCEPT ![p] = frame.options]
           /\ callOptions' = [callOptions EXCEPT ![p] = frame.callOptions]
           /\ registeredBefore' =
                 [registeredBefore EXCEPT ![p] = frame.registeredBefore]
           /\ currentAtLookup' = [currentAtLookup EXCEPT ![p] = frame.currentAtLookup]
           /\ factory' = [factory EXCEPT ![p] = frame.factory]
           /\ exists' = [exists EXCEPT ![p] = frame.exists]
           /\ invoked' = [invoked EXCEPT ![p] =
                 Append(frame.invoked,
                        [factory |-> frame.factory, options |-> frame.options,
                         made |-> made])]
           /\ ret' = [ret EXCEPT ![p] = FactoryResult(made)]
    /\ stack' = [stack EXCEPT ![p] = Tail(@)]
    /\ pc' = [pc EXCEPT ![p] = "NewLLM_Done"]
    /\ UNCHANGED <<providerFactories, providerMu, mapWriting, provider, factoryArg, calls,
                   lastRegistered, returned, raced>>
    /\ UNCHANGED <<mergeVars, transportVars, adapterVars>>

----------------------------------------------------------------------------
(* The registry under concurrent callers *)

Init ==
    /\ InitRegistry({InitialFactories, ClearedFactories})
    /\ MergeOff
    /\ TransportOff
    /\ AdapterOff

Next ==
    \E p \in Procs :
        \/ \E prov \in RegisterProviders, f \in RegisterFactories :
              RegisterProvider_Call(p, prov, f)
        \/ \E name \in CustomProviders, f \in RegisterFactories :
              RegisterCustomProvider_Call(p, name, f)
        \/ RegisterProvider_Lock(p)
        \/ RegisterProvider_AssignBegin(p)
        \/ RegisterProvider_AssignEnd(p)
        \/ RegisterProvider_Unlock(p)
        \/ \E o \in NewLLMOptions : NewLLM_Call(p, o)
        \/ NewLLM_RLock(p)
        \/ NewLLM_Lookup(p)
        \/ NewLLM_RUnlock(p)
        \/ NewLLM_Unsupported(p)
        \/ NewLLM_Factory(p)
        \/ NewLLM_Return(p)

Spec == Init /\ [][Next]_vars

----------------------------------------------------------------------------
(* Positions of a caller *)

HoldsLock(p) == pc[p] \in {"Register_Assign", "Register_Assigning", "Register_Unlock"}
HoldsRLock(p) == pc[p] \in {"NewLLM_Lookup", "NewLLM_RUnlock"}
InNewLLM(p) ==
    pc[p] \in {"NewLLM_RLock", "NewLLM_Lookup", "NewLLM_RUnlock", "NewLLM_Exists",
               "NewLLM_Done"}
HasLookedUp(p) == pc[p] \in {"NewLLM_RUnlock", "NewLLM_Exists", "NewLLM_Done"}

----------------------------------------------------------------------------
(* Properties of the registry *)

\* C1: whenever no registration is inside its critical section, the table maps
\* every identifier to the factory of the most recent registration of that
\* identifier (registrations ordered as they acquire the lock), so a repeated
\* registration replaces the factory; no step removes an identifier from the
\* table; and no step of a NewLLM call changes the table.
C1_LastWriteWins ==
    [][ /\ (\A p \in Procs :
              pc'[p] \notin {"Register_Assign", "Register_Assigning", "Register_Unlock"})
           => providerFactories' = lastRegistered'
        /\ DOMAIN providerFactories \subseteq DOMAIN providerFactories'
        /\ \A p \in Procs :
              (pc'[p] # pc[p] /\ (InNewLLM(p) \/ pc'[p] = "NewLLM_RLock"))
                 => providerFactories' = providerFactories
      ]_vars

\* C1 witness: two registrations of one identifier with different factories have
\* returned, the table holds the later one, and a NewLLM call has completed.
C1_Witness ==
    \E k \in CustomProviders, f1, f2 \in RegisterFactories, p \in Procs :
        /\ f1 # f2
        /\ {<<k, f1>>, <<k, f2>>} \subseteq returned
        /\ \A q \in Procs : pc[q] \notin {"Register_Lock", "Register_Assign",
                                            "Register_Assigning", "Register_Unlock"}
        /\ lastRegistered[k] = f2
        /\ providerFactories[k] = f2
        /\ pc[p] = "NewLLM_Done"

\* C2: a completed NewLLM call has looked up the identifier of its options
\* (openai when the options name none); when no factory was registered under
\* that identifier at the lookup it returns no adapter and the error naming the
\* identifier, having called no factory; otherwise it has called the factory
\* registered under that identifier, once.
C2_UnregisteredProvider ==
    \A p \in Procs :
        pc[p] = "NewLLM_Done" =>
            IF currentAtLookup[p] = NoFactory
            THEN /\ ret[p].llm = NilLlm
                 /\ ret[p].err =
                       Errorf("unsupported LLM provider: %s", LookupKey(callOptions[p]))
                 /\ invoked[p] = <<>>
            ELSE /\ Len(invoked[p]) = 1
                 /\ invoked[p][1].factory = currentAtLookup[p]

\* C2 witness: a call with no provider named has failed for the default
\* identifier openai, which was not registered.
C2_Witness ==
    \E p \in Procs :
        /\ pc[p] = "NewLLM_Done"
        /\ callOptions[p].Provider = ""
        /\ ProviderOpenAI \notin DOMAIN providerFactories
        /\ ret[p].err = Errorf("unsupported LLM provider: %s", ProviderOpenAI)
        /\ invoked[p] = <<>>

\* C3: when the factory a NewLLM call invoked returned an error, the call
\* returns that very error value and no adapter.
C3_FactoryErrorVerbatim ==
    \A p \in Procs :
        (pc[p] = "NewLLM_Done" /\ invoked[p] # <<>> /\ invoked[p][1].made.err # NilError)
            => /\ ret[p].err = invoked[p][1].made.err
               /\ ret[p].llm = NilLlm

\* C3 witness: a registered caller-supplied factory failed and NewLLM returned.
C3_Witness ==
    \E p \in Procs :
        /\ pc[p] = "NewLLM_Done"
        /\ invoked[p] # <<>>
        /\ invoked[p][1].factory = MyProviderFactory
        /\ invoked[p][1].made.err # NilError
        /\ ret[p].err = invoked[p][1].made.err

\* C4: a NewLLM call that starts after a registration of its identifier has
\* returned finds the identifier and invokes the factory of the latest
\* registration of it: no registration is lost, whatever the interleaving of the
\* registrations and of the lookups.
C4_NoLostWrites ==
    \A p \in Procs :
        registeredBefore[p] =>
            /\ HasLookedUp(p) => (exists[p] /\ factory[p] = currentAtLookup[p]
                                      /\ factory[p] # NoFactory)
            /\ pc[p] = "NewLLM_Done" =>
                  (Len(invoked[p]) = 1 /\ invoked[p][1].factory = currentAtLookup[p])

\* C4 witness: the registrations of two distinct identifiers have both returned,
\* both entries are in the table, and a lookup started afterwards has invoked
\* the factory registered for its identifier.
C4_Witness ==
    \E p \in Procs, k1, k2 \in CustomProviders, f, g \in RegisterFactories :
        /\ k1 # k2
        /\ returned \ {<<k, BuiltinFactory(k)>> : k \in BuiltinProviders}
              = {<<k1, f>>, <<k2, g>>}
        /\ providerFactories[k1] = f /\ providerFactories[k2] = g
        /\ LookupKey(callOptions[p]) = k1
        /\ registeredBefore[p]
        /\ pc[p] = "NewLLM_Done"
        /\ invoked[p][1].factory = f

\* C5: the statements that access the table run under the lock (the map
\* assignment with the write lock held and no reader, the lookup with a read
\* lock held and no writer); a caller holding the write lock excludes every
\* other holder; no access has raced; and a lookup observed the entry as the
\* latest whole registration left it.
C5_ReaderWriterExclusion ==
    /\ \A p \in Procs :
          /\ pc[p] \in {"Register_Assign", "Register_Assigning"}
                => (providerMu.writer = p /\ providerMu.readers = {})
          /\ pc[p] = "NewLLM_Lookup"
                => (p \in providerMu.readers /\ providerMu.writer = 0)
          /\ HoldsLock(p)
                => \A q \in Procs \ {p} : ~HoldsLock(q) /\ ~HoldsRLock(q)
          /\ HasLookedUp(p)
                => (factory[p] = currentAtLookup[p]
                      /\ exists[p] = (currentAtLookup[p] # NoFactory))
    /\ mapWriting # {} => \A p \in Procs : pc[p] # "NewLLM_Lookup"
    /\ ~raced

\* C5 witness: a registration is in the middle of writing the table while a
\* lookup waits for the read lock.
C5_Witness ==
    \E w, r \in Procs :
        /\ pc[w] = "Register_Assigning"
        /\ w \in mapWriting
        /\ pc[r] = "NewLLM_RLock"
        /\ ~CanRLock(providerMu)

----------------------------------------------------------------------------
(* mergeOptions, functions.go:6-72 *)

AppendString(opts, field, v) == [opts EXCEPT ![field] = @ \o v]

\* if v != "" { options.<field> = v }
SetString(opts, field, v) == IF v # "" THEN [opts EXCEPT ![field] = v] ELSE opts

AddNumber(opts, field, v) == IF v # 0 THEN [opts EXCEPT ![field] = @ + v] ELSE opts

\* if v != 0 { options.<field> = v }
SetNumber(opts, field, v) == IF v # 0 THEN [opts EXCEPT ![field] = v] ELSE opts

AssignVerbose(opts, v) == [opts EXCEPT !.Verbose = v]

\* functions.go:51-53: if newOptions.Verbose { options.Verbose = true }
SetVerbose(opts, v) == IF v THEN [opts EXCEPT !.Verbose = TRUE] ELSE opts

MergeProviderOptions(opts, m) ==
    IF ~m.nil
    THEN [opts EXCEPT !.ProviderOptions =
            MakeMap(m.entries \cup
                    {kv \in @.entries : \A nkv \in m.entries : nkv[1] # kv[1]})]
    ELSE opts

\* functions.go:59-61: if newOptions.ProviderOptions != nil { options.ProviderOptions = ... }
SetProviderOptions(opts, m) == IF ~m.nil THEN [opts EXCEPT !.ProviderOptions = m] ELSE opts

\* functions.go:63-65: if newOptions.Logger != nil { options.Logger = newOptions.Logger }
SetLogger(opts, l) == IF l # NilLogger THEN [opts EXCEPT !.Logger = l] ELSE opts

\* functions.go:7-19: a fresh LlmOptions receives every field of oldOptions.
CopyOptions(oldOptions) ==
    [ZeroOptions EXCEPT
        !.Provider = oldOptions.Provider,
        !.ApiKey = oldOptions.ApiKey,
        !.Model = oldOptions.Model,
        !.MaxTokens = oldOptions.MaxTokens,
        !.ProviderOptions = oldOptions.ProviderOptions,
        !.ProjectID = oldOptions.ProjectID,
        !.Region = oldOptions.Region,
        !.Temperature = oldOptions.Temperature,
        !.Verbose = oldOptions.Verbose,
        !.OutputFormat = oldOptions.OutputFormat,
        !.Logger = oldOptions.Logger,
        !.MockResponse = oldOptions.MockResponse]

\* The merge as it was before ApiKey, Logger, Provider and MockResponse were merged.
mergeOptionsDropping(oldOptions, newOptions) ==
    LET o0 == [ZeroOptions EXCEPT
                  !.Model = oldOptions.Model,
                  !.MaxTokens = oldOptions.MaxTokens,
                  !.ProviderOptions = oldOptions.ProviderOptions,
                  !.ProjectID = oldOptions.ProjectID,
                  !.Region = oldOptions.Region,
                  !.Temperature = oldOptions.Temperature,
                  !.Verbose = oldOptions.Verbose,
                  !.OutputFormat = oldOptions.OutputFormat]
        o1 == SetString(o0, "Model", newOptions.Model)
        o2 == SetNumber(o1, "MaxTokens", newOptions.MaxTokens)
        o3 == SetString(o2, "ProjectID", newOptions.ProjectID)
        o4 == SetString(o3, "Region", newOptions.Region)
        o5 == SetNumber(o4, "Temperature", newOptions.Temperature)
        o6 == SetVerbose(o5, newOptions.Verbose)
        o7 == SetString(o6, "OutputFormat", newOptions.OutputFormat)
    IN  SetProviderOptions(o7, newOptions.ProviderOptions)

\* functions.go:6-72, statement by statement.
mergeOptions(oldOptions, newOptions) ==
    LET o0 == CopyOptions(oldOptions)
        o1 == SetString(o0, "Provider", newOptions.Provider)
        o2 == SetString(o1, "ApiKey", newOptions.ApiKey)
        o3 == SetString(o2, "Model", newOptions.Model)
        o4 == SetNumber(o3, "MaxTokens", newOptions.MaxTokens)
        o5 == SetString(o4, "ProjectID", newOptions.ProjectID)
        o6 == SetString(o5, "Region", newOptions.Region)
        o7 == SetNumber(o6, "Temperature", newOptions.Temperature)
        o8 == SetVerbose(o7, newOptions.Verbose)
        o9 == SetString(o8, "OutputFormat", newOptions.OutputFormat)
        o10 == SetProviderOptions(o9, newOptions.ProviderOptions)
        o11 == SetLogger(o10, newOptions.Logger)
    IN  SetString(o11, "MockResponse", newOptions.MockResponse)

----------------------------------------------------------------------------
(* The resolver's inputs *)

FieldNames ==
    {"Provider", "MockResponse", "ApiKey", "ProjectID", "Region", "Model", "MaxTokens",
     "Temperature", "Verbose", "Logger", "OutputFormat", "ProviderOptions"}

\* The non-zero values a field takes. Temperature is counted in tenths.
FieldValues(f) ==
    CASE f = "Provider" -> {ProviderOpenAI, ProviderMock}
      [] f = "MockResponse" -> {"base response", "new response"}
      [] f = "ApiKey" -> {"base-key", "new-key"}
      [] f = "ProjectID" -> {"base-project", "new-project"}
      [] f = "Region" -> {"base-region", "new-region"}
      [] f = "Model" -> {"base-model", "new-model"}
      [] f = "MaxTokens" -> {100, 200}
      [] f = "Temperature" -> {5, 9}
      [] f = "Verbose" -> {TRUE}
      [] f = "Logger" -> {"base-logger", "new-logger"}
      [] f = "OutputFormat" -> {OutputFormatText, OutputFormatJSON}
      [] f = "ProviderOptions" ->
            {MakeMap({}), MakeMap({<<"baseKey", "baseValue">>}),
             MakeMap({<<"newKey", "newValue">>})}

\* The LlmOptions values with at most n fields different from their zero value.
RECURSIVE OptionsUpTo(_)
OptionsUpTo(n) ==
    IF n = 0
    THEN {ZeroOptions}
    ELSE LET fewer == OptionsUpTo(n - 1)
         IN  fewer \cup
             UNION {{[r EXCEPT ![f] = v] : v \in FieldValues(f)} :
                       r \in fewer, f \in FieldNames}

\* unnamed/part_010:485-506: fields a caller can write as an explicit zero.
ZeroableFields == {"MaxTokens", "Temperature", "Verbose"}

NonZeroFields(o) == {f \in FieldNames : o[f] # ZeroOptions[f]}

\* An override literal: a value and the fields written in it as explicit zeros;
\* at most MaxSet fields are written in all.
Overrides ==
    {[value |-> o, zeros |-> z] :
        o \in OptionsUpTo(MaxSet), z \in SUBSET ZeroableFields}

InitMerge ==
    /\ InitRegistry({InitialFactories})
    /\ base \in OptionsUpTo(MaxSet)
    /\ \E lit \in Overrides :
          /\ lit.zeros \cap NonZeroFields(lit.value) = {}
          /\ Cardinality(lit.zeros) + Cardinality(NonZeroFields(lit.value)) <= MaxSet
          /\ override = lit.value
          /\ explicitZero = lit.zeros
    /\ merged = ZeroOptions
    /\ remerged = ZeroOptions
    /\ mpc = "start"
    /\ estimate = NoEstimate
    /\ TransportOff
    /\ AdapterOff

ArgumentsWrittenThrough(oldOptions, newOptions) ==
    [oldOptions |->
        IF ~oldOptions.ProviderOptions.nil /\ ~newOptions.ProviderOptions.nil
        THEN [oldOptions EXCEPT !.ProviderOptions =
                 MakeMap(newOptions.ProviderOptions.entries \cup
                         {kv \in @.entries :
                             \A nkv \in newOptions.ProviderOptions.entries :
                                 nkv[1] # kv[1]})]
        ELSE oldOptions,
     newOptions |-> newOptions]

\* functions.go:6-72: what the caller's two arguments hold once the call has
\* returned. They are passed by value, every assignment of the body has a field
\* of the local `options` on its left, and the maps are copied by reference
\* (lines 11 and 60), never written.
ArgumentsAfterMerge(oldOptions, newOptions) ==
    [oldOptions |-> oldOptions, newOptions |-> newOptions]

\* merged := mergeOptions(base, override)
Merge ==
    /\ mpc = "start"
    /\ merged' = mergeOptions(base, override)
    /\ base' = ArgumentsAfterMerge(base, override).oldOptions
    /\ override' = ArgumentsAfterMerge(base, override).newOptions
    /\ mpc' = "merged"
    /\ UNCHANGED <<explicitZero, remerged, estimate>>
    /\ UNCHANGED <<registryVars, transportVars, adapterVars>>

\* remerged := mergeOptions(merged, override)
Remerge ==
    /\ mpc = "merged"
    /\ remerged' = mergeOptions(merged, override)
    /\ merged' = ArgumentsAfterMerge(merged, override).oldOptions
    /\ override' = ArgumentsAfterMerge(merged, override).newOptions
    /\ mpc' = "remerged"
    /\ UNCHANGED <<base, explicitZero, estimate>>
    /\ UNCHANGED <<registryVars, transportVars, adapterVars>>

NextMerge == Merge \/ Remerge

SpecMerge == InitMerge /\ [][NextMerge]_vars

----------------------------------------------------------------------------
(* Properties of mergeOptions *)

\* An override provides a field when the field holds a value other than the
\* zero value of its type (empty string, 0, false, nil).
Provides(o, f) == o[f] # ZeroOptions[f]

\* C6: every field of mergeOptions(base, override) is override's field when
\* override provides it and base's field otherwise; merging the zero LlmOptions
\* over base gives base.
C6_FieldwisePrecedence ==
    mpc # "start" =>
        /\ \A f \in FieldNames :
              merged[f] = IF Provides(override, f) THEN override[f] ELSE base[f]
        /\ override = ZeroOptions => merged = base

\* C6 witness: the override provides the model, the base provides another model
\* and the token limit, and the merge took the one from the override and the
\* other from the base.
C6_Witness ==
    /\ mpc = "merged"
    /\ override.Model # "" /\ base.Model # override.Model
    /\ override.MaxTokens = 0 /\ base.MaxTokens # 0
    /\ merged.Model = override.Model
    /\ merged.MaxTokens = base.MaxTokens

\* C7 (as claimed): when base has Verbose true and the override literal writes
\* Verbose: false, the merged options have Verbose false.
C7_ExplicitFalseTurnsVerboseOff ==
    (mpc # "start" /\ base.Verbose /\ "Verbose" \in explicitZero) => merged.Verbose = FALSE

\* C8 (as claimed): when the override literal writes Temperature: 0 or
\* MaxTokens: 0, the merged options hold 0 for that field.
C8_ExplicitZeroKept ==
    mpc # "start" =>
        /\ "Temperature" \in explicitZero => merged.Temperature = 0
        /\ "MaxTokens" \in explicitZero => merged.MaxTokens = 0

\* C9: merging the same override a second time changes nothing:
\* mergeOptions(mergeOptions(a, b), b) = mergeOptions(a, b), field by field.
C9_Idempotent ==
    mpc = "remerged" => \A f \in FieldNames : remerged[f] = merged[f]

\* C9 witness: both merges have run on a base and an override that each provide
\* a different numeric field, so the first merge differs from both of its inputs.
C9_Witness ==
    /\ mpc = "remerged"
    /\ base.Temperature # 0 /\ override.MaxTokens # 0
    /\ merged # base /\ merged # override
    /\ remerged = merged

\* C10: a non-nil override map (an empty one included) becomes the result's map
\* as a whole, so that no key of base's map is carried over; a nil override map
\* leaves base's map in the result.
C10_ProviderOptionsReplaced ==
    mpc # "start" =>
        IF ~override.ProviderOptions.nil
        THEN /\ ~merged.ProviderOptions.nil
             /\ merged.ProviderOptions.entries = override.ProviderOptions.entries
        ELSE merged.ProviderOptions = base.ProviderOptions

\* C10 witness: base holds a map with a key, the override holds an empty non-nil
\* map, and the merged map is empty and non-nil.
C10_Witness ==
    /\ mpc = "merged"
    /\ base.ProviderOptions.entries # {}
    /\ ~override.ProviderOptions.nil /\ override.ProviderOptions.entries = {}
    /\ ~merged.ProviderOptions.nil /\ merged.ProviderOptions.entries = {}

\* An LlmOptions value: every field present, holding a value of its type.
IsLlmOptions(o) ==
    /\ DOMAIN o = FieldNames
    /\ \A f \in {"Provider", "MockResponse", "ApiKey", "ProjectID", "Region", "Model",
                  "Logger", "OutputFormat"} : o[f] \in STRING
    /\ o.MaxTokens \in Int /\ o.Temperature \in Int
    /\ o.Verbose \in BOOLEAN
    /\ o.ProviderOptions.nil \in BOOLEAN
    /\ o.ProviderOptions.nil => o.ProviderOptions.entries = {}

----------------------------------------------------------------------------
(* The generation calls of the adapters *)

\* baseOptions(): the LlmOptions an adapter rebuilds from its fields
\* (openai_implementation.go:48-56, unnamed/part_009:172-181).
baseOptions(a, fields) == Retain(a.options, fields)

\* if v != "" { local = v }
IfSet(local, v) == IF v # "" THEN v ELSE local

\* if v > 0 { local = v }
IfPositive(local, v) == IF v > 0 THEN v ELSE local

\* What a generation call ran with, and how it ended before any vendor call.
Ran(model, maxTokens, temperature, outputFormat) ==
    [resolved |-> [Model |-> model, MaxTokens |-> maxTokens, Temperature |-> temperature,
                   OutputFormat |-> outputFormat],
     response |-> "", err |-> NilError, client |-> NoClient, readEnv |-> FALSE,
     providerOptions |-> NilMap, config |-> ZeroOptions]
Failed(msg) ==
    [resolved |-> NoResolved, response |-> "", err |-> Errorf(msg, ""),
     client |-> NoClient, readEnv |-> FALSE, providerOptions |-> NilMap,
     config |-> ZeroOptions]

\* anthropic_implementation.go:32-48: a new map, the override's keys on top.
mergeProviderOptions(b, o) ==
    IF b.nil /\ o.nil THEN NilMap
    ELSE MakeMap(o.entries \cup {kv \in b.entries : \A okv \in o.entries : okv[1] # kv[1]})

\* openai_implementation.go:59-96
Generate_openai(a, perCall) ==
    LET m == mergeOptions(baseOptions(a, {"Model", "MaxTokens", "Temperature", "Verbose",
                                          "Logger"}), perCall)
    IN  Ran(m.Model, m.MaxTokens, derefFloat64(m.Temperature, a.options.Temperature),
            m.OutputFormat)

\* gemini_implementation.go:60-98: the adapter's model, and the limits of the
\* call's own options only.
Generate_gemini(a, perCall) ==
    Ran(a.options.Model, IfPositive(0, perCall.MaxTokens),
        IfPositive(0, perCall.Temperature), perCall.OutputFormat)

\* The model names in use that contain "pro".
ProModelNames == {"gemini-2.5-pro", "gemini-1.5-pro"}

\* vertex_implementation.go:240-248: strings.Contains(modelName, "pro")
findVertexModelName(modelName) ==
    IF modelName \in ProModelNames THEN "gemini-2.5-pro" ELSE "gemini-2.5-flash"

\* vertex_implementation.go:44-111, with the credentials file in place.
Generate_vertex(a, perCall) ==
    LET m == mergeOptions(a.options, perCall)
    IN  IF m.ProjectID = "" THEN [Failed("project id is required") EXCEPT !.config = m]
        ELSE IF m.Region = "" THEN [Failed("region is required") EXCEPT !.config = m]
        ELSE [Ran(findVertexModelName(m.Model), m.MaxTokens, m.Temperature,
                  m.OutputFormat) EXCEPT !.config = m]

\* vertex_implementation.go:150-162: GenerateText and GenerateJSON merge the
\* call's options with the adapter's, set the format and call Generate.
GenerateText_vertex(a, perCall) ==
    Generate_vertex(a, [mergeOptions(a.options, perCall) EXCEPT
                           !.OutputFormat = OutputFormatText])
GenerateJSON_vertex(a, perCall) ==
    Generate_vertex(a, [mergeOptions(a.options, perCall) EXCEPT
                           !.OutputFormat = OutputFormatJSON])

Generate_mockBaseFirst(a, perCall) ==
    [Ran("", 0, 0, "") EXCEPT
        !.response = IfSet(perCall.MockResponse, a.options.MockResponse)]

\* unnamed/part_008:138-160: the canned response of the call, else the adapter's.
Generate_mock(a, perCall) ==
    [Ran("", 0, 0, "") EXCEPT
        !.response = IfSet(a.options.MockResponse, perCall.MockResponse)]

\* anthropic_implementation.go:165-238: the client is built inside the call,
\* from the adapter's provider options under the call's.
Generate_anthropic(a, perCall) ==
    LET effectiveProviderOptions ==
            mergeProviderOptions(a.options.ProviderOptions, perCall.ProviderOptions)
        built == buildAnthropicHTTPClient(effectiveProviderOptions)
        ran == Ran(IfSet(a.options.Model, perCall.Model),
                   IfPositive(a.options.MaxTokens, perCall.MaxTokens),
                   IfPositive(a.options.Temperature, perCall.Temperature),
                   perCall.OutputFormat)
    IN  IF a.options.ApiKey = ""
        THEN [Failed("anthropic api key not provided") EXCEPT
                 !.providerOptions = effectiveProviderOptions]
        ELSE IF built.err # NilError
        THEN [Failed("failed to configure anthropic http client: %w") EXCEPT
                 !.readEnv = TRUE, !.providerOptions = effectiveProviderOptions]
        ELSE [ran EXCEPT !.client = built.client, !.readEnv = TRUE,
                         !.providerOptions = effectiveProviderOptions]

\* unnamed/part_009:184-241: the client is the one the constructor built.
Generate_anthropic_part009(a, perCall) ==
    LET m == mergeOptions(baseOptions(a, {"Model", "MaxTokens", "Temperature", "Verbose",
                                          "Logger", "ProviderOptions"}), perCall)
    IN  IF a.options.ApiKey = ""
        THEN [Failed("anthropic api key not provided") EXCEPT
                 !.providerOptions = m.ProviderOptions]
        ELSE [Ran(m.Model, m.MaxTokens,
                  derefFloat64(m.Temperature, a.options.Temperature), m.OutputFormat)
                 EXCEPT !.client = a.httpClient, !.providerOptions = m.ProviderOptions]

\* openrouter_implementation.go:49-85
Generate_openrouter(a, perCall) ==
    Ran(IfSet(a.options.Model, perCall.Model),
        IfPositive(a.options.MaxTokens, perCall.MaxTokens),
        IfPositive(a.options.Temperature, perCall.Temperature),
        perCall.OutputFormat)

\* custom_implementation.go:68-120
Generate_custom(a, perCall) ==
    LET endpoint == EndpointURL(a.options.ProviderOptions)
        m == mergeOptions(baseOptions(a, {"Model", "MaxTokens", "Temperature", "Verbose",
                                          "ProviderOptions"}), perCall)
        url == MapIndex(m.ProviderOptions, "url")
        endpointURL ==
            IF ~m.ProviderOptions.nil /\ url.ok /\ url.raw.type = "string"
                  /\ TrimSpace(url.raw.text) # <<>>
            THEN TrimSpace(url.raw.text)
            ELSE endpoint
    IN  IF endpointURL = <<>> THEN Failed("endpoint url is required")
        ELSE Ran(IfSet(a.options.Model, m.Model),
                 IfPositive(a.options.MaxTokens, m.MaxTokens),
                 IfPositive(a.options.Temperature, m.Temperature),
                 m.OutputFormat)

\* Generate(systemPrompt, userMessage, opts...) on adapter a; perCall is opts[0],
\* or LlmOptions{} when the call gives no options.
Generate(a, perCall) ==
    CASE a.impl = "openaiImplementation" -> Generate_openai(a, perCall)
      [] a.impl = "geminiImplementation" -> Generate_gemini(a, perCall)
      [] a.impl = "vertexLlmImpl" -> Generate_vertex(a, perCall)
      [] a.impl = "mockImplementation" -> Generate_mock(a, perCall)
      [] a.impl = "anthropicImplementation" ->
            IF anthropicSource = "unnamed/part_009"
            THEN Generate_anthropic_part009(a, perCall)
            ELSE Generate_anthropic(a, perCall)
      [] a.impl = "openrouterImplementation" -> Generate_openrouter(a, perCall)
      [] a.impl = "customImplementation" -> Generate_custom(a, perCall)

ReceiverKeepsResolved(a, ran) ==
    IF ran.err = NilError /\ a.impl # "mockImplementation"
    THEN [a EXCEPT !.options.Model = ran.resolved.Model,
                   !.options.MaxTokens = ran.resolved.MaxTokens,
                   !.options.Temperature = ran.resolved.Temperature]
    ELSE a

\* The adapter once Generate has returned: the methods read the fields of their
\* receiver and assign to locals only (for instance openai_implementation.go:60-70,
\* vertex_implementation.go:45-46).
ReceiverAfterGenerate(a, ran) == a

\* interfaces.go:92-110, run by a single caller.
NewLLM(o) ==
    LET opts == DefaultProvider(o)
    IN  IF ~MapHas(providerFactories, opts.Provider)
        THEN [llm |-> NilLlm, err |-> Errorf("unsupported LLM provider: %s", opts.Provider)]
        ELSE FactoryResult(CallFactory(MapGet(providerFactories, opts.Provider), opts))

----------------------------------------------------------------------------
(* One adapter: construction through NewLLM, generation calls, environment *)

MaxGenerate == 2

PinText(key) == <<"sha256/", "b64 " \o Sum256(key)>>
PinOptions(key) == MakeMap({<<"anthropic_spki_hash", StringValue(PinText(key))>>})

\* The ProviderOptions a caller of a provider passes to NewLLM.
ProviderOptionsFor(p) ==
    IF p = ProviderAnthropic
    THEN {NilMap, PinOptions("keyA"),
          MakeMap({<<"anthropic_root_ca_pem", StringValue(<<"hello">>)>>})}
    ELSE IF p = ProviderCustom
    THEN {NilMap, MakeMap({<<"url", StringValue(<<"https://llm.example">>)>>})}
    ELSE {NilMap}

\* The options given to NewLLM.
AdapterOptions ==
    UNION {
        {[ZeroOptions EXCEPT !.Provider = p, !.ApiKey = k, !.Model = m,
                             !.MaxTokens = l[1], !.Temperature = l[2],
                             !.ProjectID = pr[1], !.Region = pr[2],
                             !.ProviderOptions = po, !.MockResponse = mr] :
            k \in {"", "sk-test"}, m \in {"", "base-model"},
            l \in {<<0, 0>>, <<500, 5>>},
            pr \in IF p = ProviderVertex
                   THEN {<<"", "">>, <<"my-project", "us-central1">>}
                   ELSE {<<"", "">>},
            po \in ProviderOptionsFor(p),
            mr \in IF p = ProviderMock THEN {"", "canned"} ELSE {""}} :
        p \in BuiltinProviders}

\* The options given to a generation call; the zero one stands for no options.
GenerateOverrides ==
    {[ZeroOptions EXCEPT !.Model = m, !.MaxTokens = t, !.ProviderOptions = po] :
        m \in {"", "m1"}, t \in {0, 1000}, po \in {NilMap, PinOptions("keyB")}}
    \cup {[ZeroOptions EXCEPT !.MockResponse = "per-call"]}

\* The environments of the adapter's process.
EnvUnderTest == {"ANTHROPIC_ROOT_CA_PEM", "ANTHROPIC_EXPECTED_SPKI_HASH"}
EnvValues(envKey) ==
    IF envKey = "ANTHROPIC_ROOT_CA_PEM" THEN {<<>>, <<"CERT CorpCA">>}
    ELSE {<<>>, <<"b64 " \o Sum256("keyB")>>}
AdapterEnvirons ==
    {[EmptyEnviron EXCEPT !["ANTHROPIC_ROOT_CA_PEM"] = pem,
                          !["ANTHROPIC_EXPECTED_SPKI_HASH"] = pin] :
        pem \in EnvValues("ANTHROPIC_ROOT_CA_PEM"),
        pin \in EnvValues("ANTHROPIC_EXPECTED_SPKI_HASH")}

InitAdapter ==
    /\ InitRegistry({InitialFactories})
    /\ MergeOff
    /\ TransportOff
    /\ environ \in AdapterEnvirons
    /\ anthropicSource \in AnthropicSources
    /\ llm = NoRet
    /\ constructed = NoConstructed
    /\ lastCall = NoCall
    /\ generated = 0
    /\ apc = "start"

\* The trust policy that the options and the environment of the construction
\* define for an Anthropic adapter.
TrustAtConstruction(o) ==
    IF DefaultProvider(o).Provider = ProviderAnthropic
    THEN buildAnthropicHTTPClient(o.ProviderOptions)
    ELSE NoBuilt

\* llm, err := NewLLM(o)
Construct(o) ==
    /\ apc = "start"
    /\ llm' = NewLLM(o)
    /\ constructed' = [options |-> o, environ |-> environ, ret |-> NewLLM(o),
                        trust |-> TrustAtConstruction(o),
                        via |-> [NoVia EXCEPT !.fn = "NewLLM", !.options = o]]
    /\ apc' = "constructed"
    /\ UNCHANGED <<environ, anthropicSource, lastCall, generated>>
    /\ UNCHANGED <<registryVars, mergeVars, transportVars>>

\* os.Setenv(envKey, value), by the process that holds the adapter
Setenv(envKey, value) ==
    /\ apc = "constructed"
    /\ environ[envKey] # value
    /\ environ' = [environ EXCEPT ![envKey] = value]
    /\ UNCHANGED <<anthropicSource, llm, constructed, lastCall, generated, apc>>
    /\ UNCHANGED <<registryVars, mergeVars, transportVars>>

\* llm.Generate(systemPrompt, userMessage, perCall)
\* A generation method of the adapter is called with perCall and ends as ran.
Called(method, perCall, ran) ==
    /\ lastCall' = [override |-> perCall, resolved |-> ran.resolved,
                    response |-> ran.response, err |-> ran.err,
                    client |-> ran.client, readEnv |-> ran.readEnv,
                    providerOptions |-> ran.providerOptions,
                    method |-> method, config |-> ran.config,
                    afterOverride |-> \/ lastCall.afterOverride
                                      \/ (generated > 0
                                            /\ lastCall.override # ZeroOptions)]
    /\ llm' = [llm EXCEPT !.llm = ReceiverAfterGenerate(@, ran)]
    /\ generated' = generated + 1
    /\ UNCHANGED <<environ, anthropicSource, constructed, apc>>
    /\ UNCHANGED <<registryVars, mergeVars, transportVars>>

Generate_Call(perCall) ==
    /\ apc = "constructed"
    /\ llm.err = NilError
    /\ generated < MaxGenerate
    /\ Called("Generate", perCall, Generate(llm.llm, perCall))

\* vertex_implementation.go:150-155
GenerateText_Call(perCall) ==
    /\ apc = "constructed"
    /\ llm.err = NilError
    /\ llm.llm.impl = "vertexLlmImpl"
    /\ generated < MaxGenerate
    /\ Called("GenerateText", perCall, GenerateText_vertex(llm.llm, perCall))

\* vertex_implementation.go:157-162
GenerateJSON_Call(perCall) ==
    /\ apc = "constructed"
    /\ llm.err = NilError
    /\ llm.llm.impl = "vertexLlmImpl"
    /\ generated < MaxGenerate
    /\ Called("GenerateJSON", perCall, GenerateJSON_vertex(llm.llm, perCall))

NextAdapter ==
    \/ \E o \in AdapterOptions : Construct(o)
    \/ \E envKey \in EnvUnderTest : \E value \in EnvValues(envKey) : Setenv(envKey, value)
    \/ \E perCall \in GenerateOverrides : Generate_Call(perCall)
    \/ \E perCall \in GenerateOverrides : GenerateText_Call(perCall)
    \/ \E perCall \in GenerateOverrides : GenerateJSON_Call(perCall)

SpecAdapter == InitAdapter /\ [][NextAdapter]_vars

\* C12 (as claimed): a generation call that a built-in adapter made with per-call
\* options O, on base options B, ran with O's model when O sets one, with B's
\* MaxTokens when B sets it and O does not, and with B's Temperature likewise.
C12_CallRunsWithMergedOptions ==
    (generated > 0 /\ lastCall.err = NilError /\ llm.llm.impl # "mockImplementation") =>
        LET B == constructed.options
            O == lastCall.override
            R == lastCall.resolved
        IN  /\ O.Model # "" => R.Model = O.Model
            /\ (O.MaxTokens = 0 /\ B.MaxTokens # 0) => R.MaxTokens = B.MaxTokens
            /\ (O.Temperature = 0 /\ B.Temperature # 0) => R.Temperature = B.Temperature

\* The model name a call sends for the model the adapter holds.
SentModel(a) ==
    IF a.impl = "vertexLlmImpl" THEN findVertexModelName(a.options.Model)
    ELSE a.options.Model

----------------------------------------------------------------------------
(* The transport builder and the handshakes of the client it returns *)

VerifyPresenceOnly(expectedPin, state) ==
    IF Len(state.PeerCertificates) = 0
    THEN Errorf("anthropic: no peer certificates for pinning", "")
    ELSE NilError

\* anthropic_implementation.go:100-112: the body of tlsConfig.VerifyConnection.
VerifyConnection(expectedPin, state) ==
    IF Len(state.PeerCertificates) = 0
    THEN Errorf("anthropic: no peer certificates for pinning", "")
    ELSE LET leaf == state.PeerCertificates[1]
             hash == Sum256(leaf.RawSubjectPublicKeyInfo)
         IN  IF ConstantTimeCompare(hash, expectedPin) # 1
             THEN Errorf("anthropic: certificate pin mismatch", "")
             ELSE NilError

\* crypto/tls on the client side: the chain of the peer leads to a root of
\* tlsConfig.RootCAs, the platform's roots when RootCAs is nil.
ChainVerified(client, state) ==
    /\ Len(state.PeerCertificates) > 0
    /\ state.PeerCertificates[1].Issuer \in
          (IF client.RootCAs.nil THEN SystemRoots ELSE client.RootCAs.certs)

\* A handshake of the client: the chain is verified, then the callback runs
\* when one is set (anthropic_implementation.go:117, TLSClientConfig).
HandshakeVerdict(client, state) ==
    LET callback == IF client.VerifyConnection.set
                    THEN VerifyConnection(client.VerifyConnection.expectedPin, state)
                    ELSE NilError
    IN  [chain |-> ChainVerified(client, state), callback |-> callback,
         accepted |-> ChainVerified(client, state) /\ callback = NilError]

\* The servers a client may reach: their leaf certificate, or none.
Peers ==
    {NoPeer} \cup
    {[PeerCertificates |-> <<[RawSubjectPublicKeyInfo |-> k, Issuer |-> ca]>>] :
        k \in PublicKeys, ca \in {"PublicCA", "CorpCA", "LabCA", "UnknownCA"}}

\* What a caller may put under one trust key; "absent" leaves the key out.
Absent == [type |-> "absent", text |-> <<>>]
FileValues ==
    {Absent, StringValue(<<"/etc/ca/corp.pem">>), StringValue(<<"/etc/ca/missing.pem">>),
     StringValue(<<"/etc/ca/notes.txt">>)}
PemValues ==
    {Absent, StringValue(<<"CERT LabCA">>), BytesValue(<<"CERT LabCA">>),
     StringValue(<<"hello">>), StringValue(<<Space>>), OtherValue}
PinValues ==
    {Absent, StringValue(PinText("keyA")),
     StringValue(<<Space, "b64 " \o Sum256("keyA"), Space>>),
     StringValue(<<"sha256/">>), StringValue(<<"%%%">>), StringValue(<<"b64 0102">>),
     OtherValue}

\* The ProviderOptions maps given to the builder.
TrustOptions ==
    {NilMap} \cup
    {MakeMap({kv \in {<<"anthropic_root_ca_file", f>>, <<"anthropic_root_ca_pem", c>>,
                       <<"anthropic_spki_hash", h>>} : kv[2] # Absent}) :
        f \in FileValues, c \in PemValues, h \in PinValues}

\* The environments the builder runs in.
TransportEnvirons ==
    {[EmptyEnviron EXCEPT !["ANTHROPIC_ROOT_CA_FILE"] = f,
                          !["ANTHROPIC_ROOT_CA_PEM"] = c,
                          !["ANTHROPIC_EXPECTED_SPKI_HASH"] = h] :
        f \in {<<>>, <<"/etc/ca/corp.pem">>},
        c \in {<<>>, <<"CERT CorpCA">>},
        h \in {<<>>, <<"b64 " \o Sum256("keyB")>>, <<"%%%">>}}

InitTransport ==
    /\ InitRegistry({InitialFactories})
    /\ MergeOff
    /\ environ \in TransportEnvirons
    /\ anthropicSource = "anthropic_implementation.go"
    /\ llm = NoRet
    /\ constructed = NoConstructed
    /\ lastCall = NoCall
    /\ generated = 0
    /\ apc = "off"
    /\ tOptions \in TrustOptions
    /\ tInputs = NoInputs
    /\ tBuilt = NoBuilt
    /\ tPeer = NoPeer
    /\ tAccepted = NoVerdict
    /\ tpc = "start"

\* client, err := buildAnthropicHTTPClient(tOptions)
Build ==
    /\ tpc = "start"
    /\ tInputs' = TrustInputs(tOptions)
    /\ tBuilt' = buildAnthropicHTTPClient(tOptions)
    /\ tpc' = "built"
    /\ UNCHANGED <<tOptions, tPeer, tAccepted>>
    /\ UNCHANGED <<registryVars, mergeVars, adapterVars>>

\* The returned client connects to a server.
Handshake(state) ==
    /\ tpc \in {"built", "shaken"}
    /\ tBuilt.err = NilError
    /\ tPeer' = state
    /\ tAccepted' = HandshakeVerdict(tBuilt.client, state)
    /\ tpc' = "shaken"
    /\ UNCHANGED <<tOptions, tInputs, tBuilt>>
    /\ UNCHANGED <<registryVars, mergeVars, adapterVars>>

NextTransport ==
    \/ Build
    \/ \E state \in Peers : Handshake(state)

SpecTransport == InitTransport /\ [][NextTransport]_vars

\* The pin a caller wrote, without the spaces around it and the sha256/ prefix.
PinGiven == TrimPrefix(TrimSpace(tInputs.spkiHash), "sha256/")

\* C14: with a pin supplied, a handshake is accepted only if the peer's leaf
\* certificate has the public key whose SHA-256 the pin encodes; the callback
\* rejects a peer without certificate and a peer with another key.
C14_PinnedHandshake ==
    (tpc = "shaken" /\ PinGiven # <<>>) =>
        LET certs == tPeer.PeerCertificates
            matches == /\ Len(certs) > 0
                       /\ PinGiven = <<"b64 " \o Sum256(certs[1].RawSubjectPublicKeyInfo)>>
        IN  /\ tAccepted.accepted => matches
            /\ ~matches => tAccepted.callback # NilError

\* A pinned client accepted the server whose key the pin names.
C14_Witness ==
    /\ tpc = "shaken"
    /\ PinGiven = <<"b64 " \o Sum256("keyA")>>
    /\ tAccepted.accepted
    /\ tPeer.PeerCertificates[1].RawSubjectPublicKeyInfo = "keyA"

\* The three malformed trust inputs, told on the values the builder resolved.
PemWithoutCertificate ==
    /\ tInputs.rootCAPEM # <<>>
    /\ \A i \in 1..Len(tInputs.rootCAPEM) : tInputs.rootCAPEM[i] \notin DOMAIN PemCerts
FileUnreadable ==
    /\ tInputs.rootCAFile # <<>>
    /\ \A path \in DOMAIN Files : tInputs.rootCAFile # <<path>>
PinNotBase64 ==
    /\ PinGiven # <<>>
    /\ \A t \in DOMAIN Base64 : PinGiven # <<t>>

\* C15: when the root CA PEM holds no certificate, the root CA file cannot be
\* read, or the pin is not base64, the builder returns an error and no client,
\* and no connection is ever attempted.
C15_MalformedInputFails ==
    (tpc # "start" /\ (PemWithoutCertificate \/ FileUnreadable \/ PinNotBase64)) =>
        /\ tBuilt.err # NilError
        /\ tBuilt.client = NoClient
        /\ tpc = "built"
        /\ tPeer = NoPeer

\* The builder refused a pin that is not base64, every other input being sound.
C15_Witness ==
    /\ tpc = "built"
    /\ PinNotBase64
    /\ ~PemWithoutCertificate
    /\ ~FileUnreadable
    /\ tInputs.rootCAFile = <<"/etc/ca/corp.pem">>
    /\ tBuilt.err = Errorf("anthropic: invalid SPKI hash: %w", "")

\* The caller supplied a trust input: the key is in the map, or the variable of
\* the environment is set.
Supplied(key, envKey) ==
    \/ ~tOptions.nil /\ MapIndex(tOptions, key).ok
    \/ environ[envKey] # <<>>

\* C16 (as claimed): whenever the caller supplied a pin, in whatever form, the
\* builder fails or returns a client that checks a pin; whenever the caller
\* supplied a root CA, as file or as PEM, the builder fails or returns a client
\* with its own root pool.
C16_NeverSilentlyUnhardened ==
    (tpc # "start" /\ tBuilt.err = NilError) =>
        /\ Supplied("anthropic_spki_hash", "ANTHROPIC_EXPECTED_SPKI_HASH") =>
              tBuilt.client.VerifyConnection.set
        /\ (\/ Supplied("anthropic_root_ca_file", "ANTHROPIC_ROOT_CA_FILE")
            \/ Supplied("anthropic_root_ca_pem", "ANTHROPIC_ROOT_CA_PEM")) =>
              ~tBuilt.client.RootCAs.nil

\* The text a caller gave under a key of ProviderOptions, without the spaces
\* around it; empty when the map gives no text there.
Programmatic(key) ==
    LET entry == MapIndex(tOptions, key)
    IN  IF ~tOptions.nil /\ entry.ok /\ entry.raw.type \in {"string", "[]byte"}
        THEN TrimSpace(entry.raw.text)
        ELSE <<>>

\* The value one trust input must resolve to: the text of ProviderOptions when
\* there is one, else the variable of the environment.
Precedence(key, envKey) ==
    IF Programmatic(key) # <<>> THEN Programmatic(key) ELSE TrimSpace(environ[envKey])

\* C17: each trust input is resolved on its own, as the text given in
\* ProviderOptions, else the environment variable, else the platform default (the
\* system roots, no pin); the environment is not used for an input that
\* ProviderOptions gives.
C17_ResolutionPrecedence ==
    tpc # "start" =>
        /\ tInputs.rootCAFile = Precedence("anthropic_root_ca_file", "ANTHROPIC_ROOT_CA_FILE")
        /\ tInputs.rootCAPEM = Precedence("anthropic_root_ca_pem", "ANTHROPIC_ROOT_CA_PEM")
        /\ tInputs.spkiHash = Precedence("anthropic_spki_hash", "ANTHROPIC_EXPECTED_SPKI_HASH")
        /\ tBuilt.err = NilError =>
              /\ (tInputs.rootCAFile = <<>> /\ tInputs.rootCAPEM = <<>>) =>
                    tBuilt.client.RootCAs = NilPool
              /\ tInputs.spkiHash = <<>> =>
                    tBuilt.client.VerifyConnection = NoVerifyConnection

\* The pin of ProviderOptions won over another pin in the environment, while the
\* root CA came from the environment.
C17_Witness ==
    /\ tpc = "built"
    /\ Programmatic("anthropic_spki_hash") = PinText("keyA")
    /\ environ["ANTHROPIC_EXPECTED_SPKI_HASH"] = <<"b64 " \o Sum256("keyB")>>
    /\ Programmatic("anthropic_root_ca_pem") = <<>>
    /\ tInputs.rootCAPEM = <<"CERT CorpCA">>
    /\ tBuilt.client.VerifyConnection.expectedPin = Sum256("keyA")
    /\ tBuilt.client.RootCAs.certs = {"PublicCA", "CorpCA"}

\* C19: every client the builder returns refuses TLS below 1.2, gives a
\* handshake 10 seconds and a whole request 30 seconds.
C19_ClientFloor ==
    (tpc # "start" /\ tBuilt.err = NilError) =>
        /\ ~tBuilt.client.nil
        /\ tBuilt.client.MinVersion = 771
        /\ tBuilt.client.TLSHandshakeTimeout = 10
        /\ tBuilt.client.Timeout = 30

\* A client built with no trust input at all.
C19_Witness ==
    /\ tpc = "built"
    /\ tBuilt.err = NilError
    /\ tOptions = NilMap
    /\ environ = EmptyEnviron
    /\ tBuilt.client.Timeout = 30

\* C18 (as claimed): a generation call of an Anthropic adapter does not read the
\* environment, and the client it sends with is the one that the options and
\* the environment of the construction define.
C18_TrustFixedAtConstruction ==
    (generated > 0 /\ llm.llm.impl = "anthropicImplementation") =>
        /\ ~lastCall.readEnv
        /\ lastCall.err = NilError => lastCall.client = constructed.trust.client

\* The providers whose backend needs a credential.
CredentialRequired ==
    {ProviderOpenAI, ProviderGemini, ProviderAnthropic, ProviderOpenRouter}

\* A field the provider requires is missing from the options.
RequiredMissing(o) ==
    LET p == DefaultProvider(o).Provider
    IN  \/ p \in CredentialRequired /\ o.ApiKey = ""
        \/ p = ProviderVertex /\ o.ProjectID = ""

\* C20 (as claimed): NewLLM for a built-in provider, given options that miss a
\* required field, returns an error and no adapter.
C20_MissingFieldFailsAtConstruction ==
    (apc = "constructed" /\ RequiredMissing(constructed.options)) =>
        /\ llm.err # NilError
        /\ llm.llm = NilLlm

----------------------------------------------------------------------------
(* factory.go: TextModel, JSONModel, ImageModel and createProvider *)

DefaultMaxTokens == 4096
VertexMaxTokens == 8192
\* 0.7, in tenths
DefaultTemperature == 7

\* factory.go:68-75
supportedProviders ==
    {ProviderOpenAI, ProviderGemini, ProviderVertex, ProviderAnthropic, ProviderMock,
     ProviderOpenRouter}

\* factory.go:77: lo.Contains(supportedProviders, provider)
Supported(id) == id \in supportedProviders

defaultMaxTokensFlat(id) == DefaultMaxTokens

\* factory.go:52-55: 4096, and 8192 for Vertex
defaultMaxTokens(id) == IF id = ProviderVertex THEN VertexMaxTokens ELSE DefaultMaxTokens

\* factory.go:25-79: the options createProvider hands to NewLLM, or the error
\* it returns before that, statement by statement.
createProviderOptions(id, outputFormat, o) ==
    LET o1 == [o EXCEPT !.Provider = id, !.OutputFormat = outputFormat]
        o2 == IF o1.MaxTokens = 0
              THEN [o1 EXCEPT !.MaxTokens = defaultMaxTokens(id)]
              ELSE o1
        o3 == IF o2.Temperature = 0 THEN [o2 EXCEPT !.Temperature = DefaultTemperature]
              ELSE o2
        o4 == IF o3.Region = "" /\ id = ProviderVertex
              THEN [o3 EXCEPT !.Region = "europe-west1"]
              ELSE o3
        Fail(msg, arg) == [options |-> ZeroOptions, err |-> Errorf(msg, arg)]
    IN  IF id = ProviderGemini /\ o1.ApiKey = ""
        THEN Fail("Google Gemini API key is required", "")
        ELSE IF id = ProviderVertex /\ o1.ApiKey = ""
        THEN Fail("Vertex AI project ID is required", "")
        ELSE IF id = ProviderAnthropic /\ o1.ApiKey = ""
        THEN Fail("Anthropic API key is required", "")
        ELSE IF id = ProviderOpenRouter /\ o1.ApiKey = ""
        THEN Fail("OpenRouter API key is required", "")
        ELSE IF id # ProviderMock /\ o1.Model = ""
        THEN Fail("Model is required", "")
        ELSE IF o3.ProjectID = "" /\ id = ProviderVertex
        THEN Fail("Vertex AI project ID is required", "")
        ELSE IF ~Supported(id)
        THEN Fail("unsupported provider: %s", id)
        ELSE [options |-> o4, err |-> NilError]

\* factory.go:25-84
createProvider(id, outputFormat, o) ==
    LET prepared == createProviderOptions(id, outputFormat, o)
    IN  IF prepared.err # NilError
        THEN [llm |-> NilLlm, err |-> prepared.err]
        ELSE NewLLM(prepared.options)

\* The provider identifiers given to the factory functions.
FactoryProviders == BuiltinProviders \cup {"unsupported"}

\* The options given to the factory functions.
FactoryOptions ==
    {[ZeroOptions EXCEPT !.Provider = p, !.OutputFormat = f, !.ApiKey = k, !.Model = m,
                         !.MaxTokens = l[1], !.Temperature = l[2],
                         !.ProjectID = pr[1], !.Region = pr[2], !.ProviderOptions = po,
                         !.MockResponse = mr] :
        p \in {"", ProviderOpenAI}, f \in {"", OutputFormatJSON},
        k \in {"", "sk-test"}, m \in {"", "base-model"},
        l \in {<<0, 0>>, <<500, 5>>},
        pr \in {<<"", "">>, <<"my-gcp-project", "">>, <<"my-gcp-project", "us-central1">>},
        po \in {NilMap, MakeMap({<<"url", StringValue(<<"https://llm.example">>)>>})},
        mr \in {"", "canned"}}

InitFactory ==
    /\ InitRegistry({InitialFactories})
    /\ MergeOff
    /\ TransportOff
    /\ environ = EmptyEnviron
    /\ anthropicSource \in AnthropicSources
    /\ llm = NoRet
    /\ constructed = NoConstructed
    /\ lastCall = NoCall
    /\ generated = 0
    /\ apc = "start"

\* The state after llm, err := createProvider(provider, outputFormat, o), called
\* through the function fn.
Created(fn, id, outputFormat, o) ==
    /\ apc = "start"
    /\ llm' = createProvider(id, outputFormat, o)
    /\ constructed' =
          [options |-> createProviderOptions(id, outputFormat, o).options,
           environ |-> environ,
           ret |-> createProvider(id, outputFormat, o),
           trust |-> NoBuilt,
           via |-> [fn |-> fn, provider |-> id, outputFormat |-> outputFormat,
                    options |-> o,
                    err |-> createProviderOptions(id, outputFormat, o).err]]
    /\ apc' = "constructed"
    /\ UNCHANGED <<environ, anthropicSource, lastCall, generated>>
    /\ UNCHANGED <<registryVars, mergeVars, transportVars>>

\* factory.go:10-12
TextModel(id, o) == Created("TextModel", id, OutputFormatText, o)

\* factory.go:15-17
JSONModel(id, o) == Created("JSONModel", id, OutputFormatJSON, o)

\* factory.go:20-22
ImageModel(id, o) == Created("ImageModel", id, OutputFormatImagePNG, o)

NextFactory ==
    \/ \E id \in FactoryProviders : \E o \in FactoryOptions : TextModel(id, o)
    \/ \E id \in FactoryProviders : \E o \in FactoryOptions : JSONModel(id, o)
    \/ \E id \in FactoryProviders : \E o \in FactoryOptions : ImageModel(id, o)

SpecFactory == InitFactory /\ [][NextFactory]_vars

\* The options the README documents for a provider are all in o.
Documented(id, o) ==
    /\ o.Model # ""
    /\ id \in {ProviderOpenAI, ProviderGemini, ProviderAnthropic,
                      ProviderOpenRouter, ProviderCustom} => o.ApiKey # ""
    /\ id = ProviderVertex => (o.ProjectID # "" /\ o.Region # "")
    /\ id = ProviderCustom => EndpointURL(o.ProviderOptions) # <<>>

\* C21 (as claimed): TextModel, JSONModel and ImageModel, given a provider the
\* README lists and the options it documents for that provider, return an
\* adapter and no error.
C21_DocumentedOptionsConstruct ==
    (/\ apc = "constructed"
     /\ constructed.via.fn \in {"TextModel", "JSONModel", "ImageModel"}
     /\ constructed.via.provider \in BuiltinProviders
     /\ Documented(constructed.via.provider, constructed.via.options)) =>
        /\ llm.err = NilError
        /\ llm.llm # NilLlm

\* The format each factory function stands for.
FormatOf(fn) ==
    CASE fn = "TextModel" -> "text"
      [] fn = "JSONModel" -> "json"
      [] fn = "ImageModel" -> "image/png"

\* C22: an adapter created by TextModel, JSONModel or ImageModel is constructed
\* with the provider argument and the function's format, whatever the passed
\* options hold there, with MaxTokens 4096 (8192 for Vertex) and Temperature 0.7
\* when the caller left them unset, for Vertex with Region europe-west1 when
\* unset, and with every other value as the caller gave it.
C22_FactoryDefaults ==
    (/\ apc = "constructed"
     /\ constructed.via.fn \in {"TextModel", "JSONModel", "ImageModel"}
     /\ llm.err = NilError) =>
        LET given == constructed.via.options
            with == constructed.options
            vertex == constructed.via.provider = "vertex"
        IN  /\ with.Provider = constructed.via.provider
            /\ with.OutputFormat = FormatOf(constructed.via.fn)
            /\ with.MaxTokens = IF given.MaxTokens # 0 THEN given.MaxTokens
                                 ELSE IF vertex THEN 8192 ELSE 4096
            /\ with.Temperature = IF given.Temperature # 0 THEN given.Temperature ELSE 7
            /\ with.Region = IF given.Region = "" /\ vertex THEN "europe-west1"
                              ELSE given.Region
            /\ \A f \in {"ApiKey", "Model", "ProjectID", "MockResponse", "Verbose",
                           "Logger", "ProviderOptions"} : with[f] = given[f]

\* JSONModel made a Vertex adapter from options that named another provider and
\* left format, MaxTokens, Temperature and Region unset.
C22_Witness ==
    /\ apc = "constructed"
    /\ constructed.via.fn = "JSONModel"
    /\ constructed.via.provider = "vertex"
    /\ constructed.via.options.Provider = "openai"
    /\ constructed.via.options.MaxTokens = 0
    /\ constructed.via.options.Region = ""
    /\ llm.err = NilError
    /\ llm.llm.impl = "vertexLlmImpl"
    /\ constructed.options.MaxTokens = 8192
    /\ constructed.options.Region = "europe-west1"
    /\ constructed.options.OutputFormat = "json"

\* C23 (as claimed): createProvider, called with a provider identifier outside
\* its supported list, returns no adapter and the error 'unsupported provider:
\* <identifier>', whatever the other options are.
C23_UnsupportedProvider ==
    (/\ apc = "constructed"
     /\ constructed.via.fn \in {"TextModel", "JSONModel", "ImageModel"}
     /\ constructed.via.provider \notin {"openai", "gemini", "vertex", "anthropic", "mock",
                                         "openrouter"}) =>
        /\ llm.llm = NilLlm
        /\ llm.err = Errorf("unsupported provider: %s", constructed.via.provider)

\* C24: a generation call on the mock adapter returns the response of the call's
\* options when that is not empty, else the response given at construction,
\* and never an error.
C24_MockResponse ==
    (generated > 0 /\ llm.llm.impl = "mockImplementation") =>
        /\ lastCall.err = NilError
        /\ lastCall.response =
              IF lastCall.override.MockResponse # "" THEN lastCall.override.MockResponse
              ELSE constructed.options.MockResponse

\* The mock, constructed with one response, was called with another.
C24_Witness ==
    /\ generated > 0
    /\ llm.llm.impl = "mockImplementation"
    /\ constructed.options.MockResponse = "canned"
    /\ lastCall.override.MockResponse = "per-call"
    /\ lastCall.response = "per-call"

----------------------------------------------------------------------------
(* buildVertexClientOptions, openrouter_implementation.go:679-731 *)
(* (the same in unnamed/part_005:332-384)                          *)

\* option.WithCredentialsJSON and option.WithCredentialsFile
WithCredentialsJSON(json) == [with |-> "WithCredentialsJSON", arg |-> json]
WithCredentialsFile(filename) == [with |-> "WithCredentialsFile", arg |-> filename]

\* return []option.ClientOption{opt}, nil
ClientOptions(opt) == [options |-> <<opt>>, err |-> NilError]
\* return nil, nil
NoClientOptions == [options |-> <<>>, err |-> NilError]
\* return nil, fmt.Errorf(msg, ...)
OptionsError(msg, arg) == [options |-> <<>>, err |-> Errorf(msg, arg)]

credentialsFileUnchecked(path) == ClientOptions(WithCredentialsFile(path))

\* openrouter_implementation.go:701-704, 717-720 and 724-727: a credentials
\* file is used only when os.Stat finds it.
credentialsFile(path) ==
    IF Stat(path) # NilError
    THEN OptionsError("unable to access credentials file %s: %w", path[1])
    ELSE ClientOptions(WithCredentialsFile(path))

\* openrouter_implementation.go:712-730: the three variables of the environment.
credentialsFromEnv ==
    LET jsonEnv == TrimSpace(Getenv("VERTEXAI_CREDENTIALS_JSON"))
        fileEnv == TrimSpace(Getenv("VERTEXAI_CREDENTIALS_FILE"))
        adcFile == TrimSpace(Getenv("GOOGLE_APPLICATION_CREDENTIALS"))
    IN  IF jsonEnv # <<>> THEN ClientOptions(WithCredentialsJSON(jsonEnv))
        ELSE IF fileEnv # <<>> THEN credentialsFile(fileEnv)
        ELSE IF adcFile # <<>> THEN credentialsFile(adcFile)
        ELSE NoClientOptions

\* openrouter_implementation.go:695-709: ProviderOptions["credentials_file"]
credentialsFromFileOption(providerOptions) ==
    LET entry == MapIndex(providerOptions, "credentials_file")
    IN  IF ~entry.ok THEN credentialsFromEnv
        ELSE IF entry.raw.type # "string"
        THEN OptionsError("credentials_file provider option must be string", "")
        ELSE IF TrimSpace(entry.raw.text) # <<>>
        THEN credentialsFile(TrimSpace(entry.raw.text))
        ELSE credentialsFromEnv

\* openrouter_implementation.go:679-731
buildVertexClientOptions(o) ==
    LET entry == MapIndex(o.ProviderOptions, "credentials_json")
    IN  IF o.ProviderOptions.nil THEN credentialsFromEnv
        ELSE IF ~entry.ok THEN credentialsFromFileOption(o.ProviderOptions)
        ELSE IF entry.raw.type = "string"
        THEN IF TrimSpace(entry.raw.text) # <<>>
             THEN ClientOptions(WithCredentialsJSON(TrimSpace(entry.raw.text)))
             ELSE credentialsFromFileOption(o.ProviderOptions)
        ELSE IF entry.raw.type = "[]byte"
        THEN IF Len(entry.raw.text) > 0
             THEN ClientOptions(WithCredentialsJSON(entry.raw.text))
             ELSE credentialsFromFileOption(o.ProviderOptions)
        ELSE OptionsError("credentials_json provider option must be string or []byte", "")

\* What a caller may put under the two credential keys.
CredentialsJSONValues ==
    {Absent, StringValue(<<"{sa-json}">>), StringValue(<<Space, "{sa-json}">>),
     StringValue(<<Space>>), BytesValue(<<"{sa-json-bytes}">>), BytesValue(<<>>),
     OtherValue}
CredentialsFileValues ==
    {Absent, StringValue(<<"/etc/gcp/sa.json">>), StringValue(<<"/etc/gcp/missing.json">>),
     StringValue(<<Space>>), OtherValue}

\* The ProviderOptions maps of the Vertex adapter's options.
VertexProviderOptions ==
    {NilMap} \cup
    {MakeMap({kv \in {<<"credentials_json", j>>, <<"credentials_file", f>>} :
                kv[2] # Absent}) :
        j \in CredentialsJSONValues, f \in CredentialsFileValues}

\* The environments the Vertex adapter runs in.
VertexEnvirons ==
    {[EmptyEnviron EXCEPT !["VERTEXAI_CREDENTIALS_JSON"] = j,
                          !["VERTEXAI_CREDENTIALS_FILE"] = f,
                          !["GOOGLE_APPLICATION_CREDENTIALS"] = a] :
        j \in {<<>>, <<"{env-json}">>},
        f \in {<<>>, <<"/etc/gcp/sa.json">>, <<"/etc/gcp/gone.json">>},
        a \in {<<>>, <<"/etc/gcp/adc.json">>, <<"/etc/gcp/gone.json">>}}

InitVertex ==
    /\ InitRegistry({InitialFactories})
    /\ MergeOff
    /\ environ \in VertexEnvirons
    /\ anthropicSource = "anthropic_implementation.go"
    /\ llm = NoRet
    /\ constructed = NoConstructed
    /\ lastCall = NoCall
    /\ generated = 0
    /\ apc = "off"
    /\ tOptions \in VertexProviderOptions
    /\ tInputs = NoInputs
    /\ tBuilt = NoBuilt
    /\ tPeer = NoPeer
    /\ tAccepted = NoVerdict
    /\ tpc = "start"

\* clientOptions, err := buildVertexClientOptions(options)
BuildVertexClientOptions ==
    /\ tpc = "start"
    /\ tBuilt' = buildVertexClientOptions([ZeroOptions EXCEPT !.ProviderOptions = tOptions])
    /\ tpc' = "built"
    /\ UNCHANGED <<tOptions, tInputs, tPeer, tAccepted>>
    /\ UNCHANGED <<registryVars, mergeVars, adapterVars>>

NextVertex == BuildVertexClientOptions

SpecVertex == InitVertex /\ [][NextVertex]_vars

\* The credential sources in the documented order, each as the value it holds
\* when it is present: inline JSON as <<"json", text>>, a file as <<"file", path>>.
CredentialSources ==
    LET Option(key) ==
            IF tOptions.nil \/ ~MapIndex(tOptions, key).ok THEN Absent
            ELSE MapIndex(tOptions, key).raw
        j == Option("credentials_json")
        f == Option("credentials_file")
        Env(kind, envKey) ==
            IF TrimSpace(environ[envKey]) # <<>>
            THEN <<<<kind, TrimSpace(environ[envKey])>>>> ELSE <<>>
    IN  (IF j.type = "string" /\ TrimSpace(j.text) # <<>>
         THEN <<<<"json", TrimSpace(j.text)>>>>
         ELSE IF j.type = "[]byte" /\ j.text # <<>> THEN <<<<"json", j.text>>>> ELSE <<>>)
        \o (IF f.type = "string" /\ TrimSpace(f.text) # <<>>
            THEN <<<<"file", TrimSpace(f.text)>>>> ELSE <<>>)
        \o Env("json", "VERTEXAI_CREDENTIALS_JSON")
        \o Env("file", "VERTEXAI_CREDENTIALS_FILE")
        \o Env("file", "GOOGLE_APPLICATION_CREDENTIALS")

\* C25: the Vertex credentials are those of the first source that is present, in
\* the order credentials_json, credentials_file, VERTEXAI_CREDENTIALS_JSON,
\* VERTEXAI_CREDENTIALS_FILE, GOOGLE_APPLICATION_CREDENTIALS; with none present
\* no credential option is set (Application Default Credentials); when the first
\* present source is a file that cannot be accessed the result is an error and
\* no later source is used.
C25_CredentialPrecedence ==
    tpc = "built" =>
        LET sources == CredentialSources
            first == sources[1]
            accessible == \E path \in DOMAIN Files : first[2] = <<path>>
        IN  /\ tBuilt.err = NilError =>
                  IF sources = <<>> THEN tBuilt.options = <<>>
                  ELSE /\ Len(tBuilt.options) = 1
                       /\ tBuilt.options[1].arg = first[2]
                       /\ tBuilt.options[1].with =
                             (IF first[1] = "json" THEN "WithCredentialsJSON"
                              ELSE "WithCredentialsFile")
                       /\ first[1] = "file" => accessible
            /\ tBuilt.err # NilError => tBuilt.options = <<>>
            /\ (sources # <<>> /\ first[1] = "file" /\ ~accessible) =>
                  tBuilt.err # NilError

\* The file named in ProviderOptions cannot be accessed while the environment
\* names credentials that can: the result is the error.
C25_Witness ==
    /\ tpc = "built"
    /\ CredentialSources # <<>>
    /\ CredentialSources[1] = <<"file", <<"/etc/gcp/missing.json">>>>
    /\ environ["VERTEXAI_CREDENTIALS_JSON"] = <<"{env-json}">>
    /\ environ["GOOGLE_APPLICATION_CREDENTIALS"] = <<"/etc/gcp/adc.json">>
    /\ tBuilt.err = Errorf("unable to access credentials file %s: %w",
                            "/etc/gcp/missing.json")

----------------------------------------------------------------------------
(* tokens.go: EstimateMaxTokens *)

\* The values of Go's int, and the wrap-around of its arithmetic.
MinInt == -(2 ^ (IntBits - 1))
MaxInt == 2 ^ (IntBits - 1) - 1
GoInt == MinInt..MaxInt
WrapInt(x) == ((x - MinInt) % (2 ^ IntBits)) + MinInt

\* tokens.go:39-45
EstimateMaxTokens(promptTokens, contextWindowSize) ==
    IF promptTokens >= contextWindowSize
    THEN 0
    ELSE WrapInt(contextWindowSize - promptTokens)

InitTokens ==
    /\ InitRegistry({InitialFactories})
    /\ base = ZeroOptions
    /\ override = ZeroOptions
    /\ explicitZero = {}
    /\ merged = ZeroOptions
    /\ remerged = ZeroOptions
    /\ mpc = "off"
    /\ \E p \in GoInt, c \in GoInt :
          estimate = [promptTokens |-> p, contextWindowSize |-> c, result |-> 0,
                      done |-> FALSE]
    /\ TransportOff
    /\ AdapterOff

\* result := EstimateMaxTokens(promptTokens, contextWindowSize)
Estimate ==
    /\ ~estimate.done
    /\ estimate' = [estimate EXCEPT
                        !.result = EstimateMaxTokens(estimate.promptTokens,
                                                     estimate.contextWindowSize),
                        !.done = TRUE]
    /\ UNCHANGED <<base, override, explicitZero, merged, remerged, mpc>>
    /\ UNCHANGED <<registryVars, transportVars, adapterVars>>

NextTokens == Estimate

SpecTokens == InitTokens /\ [][NextTokens]_vars

\* C26 (as claimed): for all values of int, EstimateMaxTokens returns
\* contextWindowSize - promptTokens when promptTokens < contextWindowSize and 0
\* otherwise, and never a negative number.
C26_EstimateNeverNegative ==
    estimate.done =>
        /\ estimate.result >= 0
        /\ estimate.result =
              IF estimate.promptTokens < estimate.contextWindowSize
              THEN estimate.contextWindowSize - estimate.promptTokens
              ELSE 0

\* C27: the merged Verbose is true exactly when the base's or the override's
\* is: a merge turns verbosity on and never off.
C27_VerboseOnlyTurnsOn ==
    mpc # "start" =>
        /\ merged.Verbose = (base.Verbose \/ override.Verbose)
        /\ mpc = "remerged" => remerged.Verbose = (merged.Verbose \/ override.Verbose)

\* A verbose base was merged with an override that is not verbose.
C27_Witness ==
    /\ mpc = "merged"
    /\ base.Verbose
    /\ ~override.Verbose
    /\ merged.Verbose

\* C28: in the Anthropic adapter of anthropic_implementation.go the provider
\* options in effect for a call are the call's ProviderOptions map alone when it
\* is not nil, no key of the adapter's map surviving, and the adapter's map
\* otherwise.
C28_ProviderOptionsReplacedWholesale ==
    (/\ generated > 0
     /\ llm.llm.impl = "anthropicImplementation"
     /\ anthropicSource = "anthropic_implementation.go") =>
        lastCall.providerOptions =
            IF ~lastCall.override.ProviderOptions.nil
            THEN lastCall.override.ProviderOptions
            ELSE constructed.options.ProviderOptions

----------------------------------------------------------------------------
(* The registry under fair scheduling, with a factory that calls back *)

\* The identifier the callers register the factory under and construct.
ReentrantProvider == "test-provider"

\* The registry after init(), no caller inside it.
InitReentrant ==
    /\ InitRegistry({InitialFactories})
    /\ MergeOff
    /\ TransportOff
    /\ AdapterOff

\* A step of caller p that waits for the mutex (interfaces.go:81, 98).
Acquire(p) == RegisterProvider_Lock(p) \/ NewLLM_RLock(p)

\* A step of caller p inside a call that waits for nothing.
Proceed(p) ==
    \/ RegisterProvider_AssignBegin(p)
    \/ RegisterProvider_AssignEnd(p)
    \/ RegisterProvider_Unlock(p)
    \/ RegisterProvider_UnlockInFactory(p)
    \/ NewLLM_Lookup(p)
    \/ NewLLM_RUnlock(p)
    \/ NewLLM_Unsupported(p)
    \/ NewLLM_Factory(p)
    \/ NewLLM_FactoryEnter(p)
    \/ NewLLM_ReturnToFactory(p)
    \/ NewLLM_Return(p)

NextReentrant ==
    \E p \in Procs :
        \/ RegisterProvider_Call(p, ReentrantProvider, ReentrantFactory)
        \/ NewLLM_Call(p, [ZeroOptions EXCEPT !.Provider = ReentrantProvider])
        \/ Acquire(p)
        \/ Proceed(p)

\* The Go scheduler runs every goroutine that can take a step: a caller whose
\* next step stays possible takes it.
FairScheduling ==
    \A p \in Procs : WF_vars(Acquire(p) \/ Proceed(p))

SpecReentrant ==
    /\ InitReentrant
    /\ [][NextReentrant]_vars
    /\ FairScheduling

\* Caller p holds the registry's mutex, as a reader or as the writer.
HoldsMutex(p) == p \in providerMu.readers \/ providerMu.writer = p

\* C29: NewLLM holds no lock of the registry when it calls the factory and when
\* the factory starts its first call, and under fair scheduling every
\* RegisterProvider and NewLLM call returns, also when the factory NewLLM
\* invokes calls RegisterProvider and NewLLM itself.
C29_EveryCallReturns ==
    /\ [](\A p \in Procs : pc[p] \in {"NewLLM_Exists", "Register_Lock"} => ~HoldsMutex(p))
    /\ \A p \in Procs : (pc[p] # "idle") ~> (pc[p] = "idle" /\ stack[p] = <<>>)

\* A caller is inside RegisterProvider called by its factory and holds the write
\* lock, while another caller waits for the mutex.
C29_Witness ==
    \E p, q \in Procs :
        /\ stack[p] # <<>>
        /\ providerMu.writer = p
        /\ pc[q] \in {"Register_Lock", "NewLLM_RLock"}

\* The format a generation method of the Vertex adapter asks for.
MethodFormat(method, o) ==
    IF method = "GenerateText" THEN OutputFormatText
    ELSE IF method = "GenerateJSON" THEN OutputFormatJSON
    ELSE o.OutputFormat

====
